---------------------------- MODULE Spec2Model ----------------------------
(***************************************************************************)
(* The event registry of tracee-ebpf (EventsIDToEvent, EventsIDToParams)   *)
(* and the synthesizer of the user-space event init_namespaces            *)
(* (CreateInitNamespacesEvent), which reads the namespace links of the     *)
(* init process from /proc/1/ns.                                           *)
(*                                                                         *)
(* Strings the code only compares (event names, argument names, directory  *)
(* entry names) are TLA+ strings.  Link targets, which the code matches,   *)
(* trims and parses, are sequences of one-character strings.               *)
(*                                                                         *)
(* uint32 values are records [hi, lo] of two 16-bit limbs                  *)
(* (value = hi * 2^16 + lo): TLC's integers stop at 2^31 - 1.              *)
(***************************************************************************)
EXTENDS Integers, Sequences, FiniteSets, TLC

(***************************************************************************)
(* Bounds of the model.                                                    *)
(***************************************************************************)
\* the most entries the namespace directory holds
MaxEntries == 2
\* the wall clock runs from 0 to MaxClock
MaxClock == 1

(***************************************************************************)
(* Enumerations of the registry (consts).                                  *)
(***************************************************************************)
\* probeType: the mechanism used to attach the event
sysCall == 0
kprobe == 1
kretprobe == 2
tracepoint == 3
rawTracepoint == 4

\* "Non syscalls events": const ( SysEnterEventID int32 = iota + 1000 ... MaxEventID )
NonSyscallEventIDBase == 1000
NonSyscallEventIDs ==
  << "SysEnterEventID", "SysExitEventID", "SchedProcessForkEventID",
     "SchedProcessExecEventID", "SchedProcessExitEventID", "SchedSwitchEventID",
     "DoExitEventID", "CapCapableEventID", "VfsWriteEventID", "VfsWritevEventID",
     "MemProtAlertEventID", "CommitCredsEventID", "SwitchTaskNSEventID",
     "MagicWriteEventID", "CgroupAttachTaskEventID", "CgroupMkdirEventID",
     "CgroupRmdirEventID", "SecurityBprmCheckEventID", "SecurityFileOpenEventID",
     "SecurityInodeUnlinkEventID", "SecuritySocketCreateEventID",
     "SecuritySocketListenEventID", "SecuritySocketConnectEventID",
     "SecuritySocketAcceptEventID", "SecuritySocketBindEventID",
     "SecuritySbMountEventID", "SecurityBPFEventID", "SecurityBPFMapEventID",
     "SecurityKernelReadFileEventID", "SecurityInodeMknodEventID",
     "SecurityPostReadFileEventID", "SocketDupEventID", "MaxEventID" >>

\* "Events originated from user-space": const ( InitNamespacesEventID int32 = iota + 2000 )
UserSpaceEventIDBase == 2000
UserSpaceEventIDs == << "InitNamespacesEventID" >>

(***************************************************************************)
(* The literals of the two registry tables, row by row as in the source.  *)
(* Key and ID hold the name of the Go constant; EventIDValue gives its     *)
(* number.  ID32Bit holds the name of the sys32 constant.                  *)
(***************************************************************************)
EventsIDToEventRows ==
  <<
    [Key |-> "ReadEventID", ID |-> "ReadEventID", ID32Bit |-> "sys32read", Name |-> "read", Probes |-> <<[event |-> "read", attach |-> sysCall, fn |-> "read"]>>, EssentialEvent |-> FALSE, Sets |-> <<"syscalls", "fs", "fs_read_write">>],
    [Key |-> "WriteEventID", ID |-> "WriteEventID", ID32Bit |-> "sys32write", Name |-> "write", Probes |-> <<[event |-> "write", attach |-> sysCall, fn |-> "write"]>>, EssentialEvent |-> FALSE, Sets |-> <<"syscalls", "fs", "fs_read_write">>],
    [Key |-> "OpenEventID", ID |-> "OpenEventID", ID32Bit |-> "sys32open", Name |-> "open", Probes |-> <<[event |-> "open", attach |-> sysCall, fn |-> "open"]>>, EssentialEvent |-> FALSE, Sets |-> <<"default", "syscalls", "fs", "fs_file_ops">>],
    [Key |-> "CloseEventID", ID |-> "CloseEventID", ID32Bit |-> "sys32close", Name |-> "close", Probes |-> <<[event |-> "close", attach |-> sysCall, fn |-> "close"]>>, EssentialEvent |-> FALSE, Sets |-> <<"default", "syscalls", "fs", "fs_file_ops">>],
    [Key |-> "StatEventID", ID |-> "StatEventID", ID32Bit |-> "sys32stat", Name |-> "stat", Probes |-> <<[event |-> "newstat", attach |-> sysCall, fn |-> "newstat"]>>, EssentialEvent |-> FALSE, Sets |-> <<"default", "syscalls", "fs", "fs_file_attr">>],
    [Key |-> "FstatEventID", ID |-> "FstatEventID", ID32Bit |-> "sys32fstat", Name |-> "fstat", Probes |-> <<[event |-> "newfstat", attach |-> sysCall, fn |-> "newfstat"]>>, EssentialEvent |-> FALSE, Sets |-> <<"default", "syscalls", "fs", "fs_file_attr">>],
    [Key |-> "LstatEventID", ID |-> "LstatEventID", ID32Bit |-> "sys32lstat", Name |-> "lstat", Probes |-> <<[event |-> "newlstat", attach |-> sysCall, fn |-> "newlstat"]>>, EssentialEvent |-> FALSE, Sets |-> <<"default", "syscalls", "fs", "fs_file_attr">>],
    [Key |-> "PollEventID", ID |-> "PollEventID", ID32Bit |-> "sys32poll", Name |-> "poll", Probes |-> <<[event |-> "poll", attach |-> sysCall, fn |-> "poll"]>>, EssentialEvent |-> FALSE, Sets |-> <<"syscalls", "fs", "fs_mux_io">>],
    [Key |-> "LseekEventID", ID |-> "LseekEventID", ID32Bit |-> "sys32lseek", Name |-> "lseek", Probes |-> <<[event |-> "lseek", attach |-> sysCall, fn |-> "lseek"]>>, EssentialEvent |-> FALSE, Sets |-> <<"syscalls", "fs", "fs_read_write">>],
    [Key |-> "MmapEventID", ID |-> "MmapEventID", ID32Bit |-> "sys32mmap", Name |-> "mmap", Probes |-> <<[event |-> "mmap", attach |-> sysCall, fn |-> "mmap"]>>, EssentialEvent |-> FALSE, Sets |-> <<"syscalls", "proc", "proc_mem">>],
    [Key |-> "MprotectEventID", ID |-> "MprotectEventID", ID32Bit |-> "sys32mprotect", Name |-> "mprotect", Probes |-> <<[event |-> "mprotect", attach |-> sysCall, fn |-> "mprotect"]>>, EssentialEvent |-> FALSE, Sets |-> <<"syscalls", "proc", "proc_mem">>],
    [Key |-> "MunmapEventID", ID |-> "MunmapEventID", ID32Bit |-> "sys32munmap", Name |-> "munmap", Probes |-> <<[event |-> "munmap", attach |-> sysCall, fn |-> "munmap"]>>, EssentialEvent |-> FALSE, Sets |-> <<"syscalls", "proc", "proc_mem">>],
    [Key |-> "BrkEventID", ID |-> "BrkEventID", ID32Bit |-> "sys32brk", Name |-> "brk", Probes |-> <<[event |-> "brk", attach |-> sysCall, fn |-> "brk"]>>, EssentialEvent |-> FALSE, Sets |-> <<"syscalls", "proc", "proc_mem">>],
    [Key |-> "RtSigactionEventID", ID |-> "RtSigactionEventID", ID32Bit |-> "sys32rt_sigaction", Name |-> "rt_sigaction", Probes |-> <<[event |-> "rt_sigaction", attach |-> sysCall, fn |-> "rt_sigaction"]>>, EssentialEvent |-> FALSE, Sets |-> <<"syscalls", "signals">>],
    [Key |-> "RtSigprocmaskEventID", ID |-> "RtSigprocmaskEventID", ID32Bit |-> "sys32rt_sigprocmask", Name |-> "rt_sigprocmask", Probes |-> <<[event |-> "rt_sigprocmask", attach |-> sysCall, fn |-> "rt_sigprocmask"]>>, EssentialEvent |-> FALSE, Sets |-> <<"syscalls", "signals">>],
    [Key |-> "RtSigreturnEventID", ID |-> "RtSigreturnEventID", ID32Bit |-> "sys32rt_sigreturn", Name |-> "rt_sigreturn", Probes |-> <<[event |-> "rt_sigreturn", attach |-> sysCall, fn |-> "rt_sigreturn"]>>, EssentialEvent |-> FALSE, Sets |-> <<"syscalls", "signals">>],
    [Key |-> "IoctlEventID", ID |-> "IoctlEventID", ID32Bit |-> "sys32ioctl", Name |-> "ioctl", Probes |-> <<[event |-> "ioctl", attach |-> sysCall, fn |-> "ioctl"]>>, EssentialEvent |-> FALSE, Sets |-> <<"syscalls", "fs", "fs_fd_ops">>],
    [Key |-> "Pread64EventID", ID |-> "Pread64EventID", ID32Bit |-> "sys32pread64", Name |-> "pread64", Probes |-> <<[event |-> "pread64", attach |-> sysCall, fn |-> "pread64"]>>, EssentialEvent |-> FALSE, Sets |-> <<"syscalls", "fs", "fs_read_write">>],
    [Key |-> "Pwrite64EventID", ID |-> "Pwrite64EventID", ID32Bit |-> "sys32pwrite64", Name |-> "pwrite64", Probes |-> <<[event |-> "pwrite64", attach |-> sysCall, fn |-> "pwrite64"]>>, EssentialEvent |-> FALSE, Sets |-> <<"syscalls", "fs", "fs_read_write">>],
    [Key |-> "ReadvEventID", ID |-> "ReadvEventID", ID32Bit |-> "sys32readv", Name |-> "readv", Probes |-> <<[event |-> "readv", attach |-> sysCall, fn |-> "readv"]>>, EssentialEvent |-> FALSE, Sets |-> <<"syscalls", "fs", "fs_read_write">>],
    [Key |-> "WritevEventID", ID |-> "WritevEventID", ID32Bit |-> "sys32writev", Name |-> "writev", Probes |-> <<[event |-> "writev", attach |-> sysCall, fn |-> "writev"]>>, EssentialEvent |-> FALSE, Sets |-> <<"syscalls", "fs", "fs_read_write">>],
    [Key |-> "AccessEventID", ID |-> "AccessEventID", ID32Bit |-> "sys32access", Name |-> "access", Probes |-> <<[event |-> "access", attach |-> sysCall, fn |-> "access"]>>, EssentialEvent |-> FALSE, Sets |-> <<"default", "syscalls", "fs", "fs_file_attr">>],
    [Key |-> "PipeEventID", ID |-> "PipeEventID", ID32Bit |-> "sys32pipe", Name |-> "pipe", Probes |-> <<[event |-> "pipe", attach |-> sysCall, fn |-> "pipe"]>>, EssentialEvent |-> FALSE, Sets |-> <<"syscalls", "ipc", "ipc_pipe">>],
    [Key |-> "SelectEventID", ID |-> "SelectEventID", ID32Bit |-> "sys32select", Name |-> "select", Probes |-> <<[event |-> "select", attach |-> sysCall, fn |-> "select"]>>, EssentialEvent |-> FALSE, Sets |-> <<"syscalls", "fs", "fs_mux_io">>],
    [Key |-> "SchedYieldEventID", ID |-> "SchedYieldEventID", ID32Bit |-> "sys32sched_yield", Name |-> "sched_yield", Probes |-> <<[event |-> "sched_yield", attach |-> sysCall, fn |-> "sched_yield"]>>, EssentialEvent |-> FALSE, Sets |-> <<"syscalls", "proc", "proc_sched">>],
    [Key |-> "MremapEventID", ID |-> "MremapEventID", ID32Bit |-> "sys32mremap", Name |-> "mremap", Probes |-> <<[event |-> "mremap", attach |-> sysCall, fn |-> "mremap"]>>, EssentialEvent |-> FALSE, Sets |-> <<"syscalls", "proc", "proc_mem">>],
    [Key |-> "MsyncEventID", ID |-> "MsyncEventID", ID32Bit |-> "sys32msync", Name |-> "msync", Probes |-> <<[event |-> "msync", attach |-> sysCall, fn |-> "msync"]>>, EssentialEvent |-> FALSE, Sets |-> <<"syscalls", "fs", "fs_sync">>],
    [Key |-> "MincoreEventID", ID |-> "MincoreEventID", ID32Bit |-> "sys32mincore", Name |-> "mincore", Probes |-> <<[event |-> "mincore", attach |-> sysCall, fn |-> "mincore"]>>, EssentialEvent |-> FALSE, Sets |-> <<"syscalls", "proc", "proc_mem">>],
    [Key |-> "MadviseEventID", ID |-> "MadviseEventID", ID32Bit |-> "sys32madvise", Name |-> "madvise", Probes |-> <<[event |-> "madvise", attach |-> sysCall, fn |-> "madvise"]>>, EssentialEvent |-> FALSE, Sets |-> <<"syscalls", "proc", "proc_mem">>],
    [Key |-> "ShmgetEventID", ID |-> "ShmgetEventID", ID32Bit |-> "sys32shmget", Name |-> "shmget", Probes |-> <<[event |-> "shmget", attach |-> sysCall, fn |-> "shmget"]>>, EssentialEvent |-> FALSE, Sets |-> <<"syscalls", "ipc", "ipc_shm">>],
    [Key |-> "ShmatEventID", ID |-> "ShmatEventID", ID32Bit |-> "sys32shmat", Name |-> "shmat", Probes |-> <<[event |-> "shmat", attach |-> sysCall, fn |-> "shmat"]>>, EssentialEvent |-> FALSE, Sets |-> <<"syscalls", "ipc", "ipc_shm">>],
    [Key |-> "ShmctlEventID", ID |-> "ShmctlEventID", ID32Bit |-> "sys32shmctl", Name |-> "shmctl", Probes |-> <<[event |-> "shmctl", attach |-> sysCall, fn |-> "shmctl"]>>, EssentialEvent |-> FALSE, Sets |-> <<"syscalls", "ipc", "ipc_shm">>],
    [Key |-> "DupEventID", ID |-> "DupEventID", ID32Bit |-> "sys32dup", Name |-> "dup", Probes |-> <<[event |-> "dup", attach |-> sysCall, fn |-> "dup"]>>, EssentialEvent |-> FALSE, Sets |-> <<"default", "syscalls", "fs", "fs_fd_ops">>],
    [Key |-> "Dup2EventID", ID |-> "Dup2EventID", ID32Bit |-> "sys32dup2", Name |-> "dup2", Probes |-> <<[event |-> "dup2", attach |-> sysCall, fn |-> "dup2"]>>, EssentialEvent |-> FALSE, Sets |-> <<"default", "syscalls", "fs", "fs_fd_ops">>],
    [Key |-> "PauseEventID", ID |-> "PauseEventID", ID32Bit |-> "sys32pause", Name |-> "pause", Probes |-> <<[event |-> "pause", attach |-> sysCall, fn |-> "pause"]>>, EssentialEvent |-> FALSE, Sets |-> <<"syscalls", "signals">>],
    [Key |-> "NanosleepEventID", ID |-> "NanosleepEventID", ID32Bit |-> "sys32nanosleep", Name |-> "nanosleep", Probes |-> <<[event |-> "nanosleep", attach |-> sysCall, fn |-> "nanosleep"]>>, EssentialEvent |-> FALSE, Sets |-> <<"syscalls", "time", "time_timer">>],
    [Key |-> "GetitimerEventID", ID |-> "GetitimerEventID", ID32Bit |-> "sys32getitimer", Name |-> "getitimer", Probes |-> <<[event |-> "getitimer", attach |-> sysCall, fn |-> "getitimer"]>>, EssentialEvent |-> FALSE, Sets |-> <<"syscalls", "time", "time_timer">>],
    [Key |-> "AlarmEventID", ID |-> "AlarmEventID", ID32Bit |-> "sys32alarm", Name |-> "alarm", Probes |-> <<[event |-> "alarm", attach |-> sysCall, fn |-> "alarm"]>>, EssentialEvent |-> FALSE, Sets |-> <<"syscalls", "time", "time_timer">>],
    [Key |-> "SetitimerEventID", ID |-> "SetitimerEventID", ID32Bit |-> "sys32setitimer", Name |-> "setitimer", Probes |-> <<[event |-> "setitimer", attach |-> sysCall, fn |-> "setitimer"]>>, EssentialEvent |-> FALSE, Sets |-> <<"syscalls", "time", "time_timer">>],
    [Key |-> "GetpidEventID", ID |-> "GetpidEventID", ID32Bit |-> "sys32getpid", Name |-> "getpid", Probes |-> <<[event |-> "getpid", attach |-> sysCall, fn |-> "getpid"]>>, EssentialEvent |-> FALSE, Sets |-> <<"syscalls", "proc", "proc_ids">>],
    [Key |-> "SendfileEventID", ID |-> "SendfileEventID", ID32Bit |-> "sys32sendfile", Name |-> "sendfile", Probes |-> <<[event |-> "sendfile", attach |-> sysCall, fn |-> "sendfile"]>>, EssentialEvent |-> FALSE, Sets |-> <<"syscalls", "fs", "fs_read_write">>],
    [Key |-> "SocketEventID", ID |-> "SocketEventID", ID32Bit |-> "sys32socket", Name |-> "socket", Probes |-> <<[event |-> "socket", attach |-> sysCall, fn |-> "socket"]>>, EssentialEvent |-> FALSE, Sets |-> <<"default", "syscalls", "net", "net_sock">>],
    [Key |-> "ConnectEventID", ID |-> "ConnectEventID", ID32Bit |-> "sys32connect", Name |-> "connect", Probes |-> <<[event |-> "connect", attach |-> sysCall, fn |-> "connect"]>>, EssentialEvent |-> FALSE, Sets |-> <<"default", "syscalls", "net", "net_sock">>],
    [Key |-> "AcceptEventID", ID |-> "AcceptEventID", ID32Bit |-> "sys32undefined", Name |-> "accept", Probes |-> <<[event |-> "accept", attach |-> sysCall, fn |-> "accept"]>>, EssentialEvent |-> FALSE, Sets |-> <<"default", "syscalls", "net", "net_sock">>],
    [Key |-> "SendtoEventID", ID |-> "SendtoEventID", ID32Bit |-> "sys32sendto", Name |-> "sendto", Probes |-> <<[event |-> "sendto", attach |-> sysCall, fn |-> "sendto"]>>, EssentialEvent |-> FALSE, Sets |-> <<"syscalls", "net", "net_snd_rcv">>],
    [Key |-> "RecvfromEventID", ID |-> "RecvfromEventID", ID32Bit |-> "sys32recvfrom", Name |-> "recvfrom", Probes |-> <<[event |-> "recvfrom", attach |-> sysCall, fn |-> "recvfrom"]>>, EssentialEvent |-> FALSE, Sets |-> <<"syscalls", "net", "net_snd_rcv">>],
    [Key |-> "SendmsgEventID", ID |-> "SendmsgEventID", ID32Bit |-> "sys32sendmsg", Name |-> "sendmsg", Probes |-> <<[event |-> "sendmsg", attach |-> sysCall, fn |-> "sendmsg"]>>, EssentialEvent |-> FALSE, Sets |-> <<"syscalls", "net", "net_snd_rcv">>],
    [Key |-> "RecvmsgEventID", ID |-> "RecvmsgEventID", ID32Bit |-> "sys32recvmsg", Name |-> "recvmsg", Probes |-> <<[event |-> "recvmsg", attach |-> sysCall, fn |-> "recvmsg"]>>, EssentialEvent |-> FALSE, Sets |-> <<"syscalls", "net", "net_snd_rcv">>],
    [Key |-> "ShutdownEventID", ID |-> "ShutdownEventID", ID32Bit |-> "sys32shutdown", Name |-> "shutdown", Probes |-> <<[event |-> "shutdown", attach |-> sysCall, fn |-> "shutdown"]>>, EssentialEvent |-> FALSE, Sets |-> <<"syscalls", "net", "net_sock">>],
    [Key |-> "BindEventID", ID |-> "BindEventID", ID32Bit |-> "sys32bind", Name |-> "bind", Probes |-> <<[event |-> "bind", attach |-> sysCall, fn |-> "bind"]>>, EssentialEvent |-> FALSE, Sets |-> <<"default", "syscalls", "net", "net_sock">>],
    [Key |-> "ListenEventID", ID |-> "ListenEventID", ID32Bit |-> "sys32listen", Name |-> "listen", Probes |-> <<[event |-> "listen", attach |-> sysCall, fn |-> "listen"]>>, EssentialEvent |-> FALSE, Sets |-> <<"default", "syscalls", "net", "net_sock">>],
    [Key |-> "GetsocknameEventID", ID |-> "GetsocknameEventID", ID32Bit |-> "sys32getsockname", Name |-> "getsockname", Probes |-> <<[event |-> "getsockname", attach |-> sysCall, fn |-> "getsockname"]>>, EssentialEvent |-> FALSE, Sets |-> <<"default", "syscalls", "net", "net_sock">>],
    [Key |-> "GetpeernameEventID", ID |-> "GetpeernameEventID", ID32Bit |-> "sys32getpeername", Name |-> "getpeername", Probes |-> <<[event |-> "getpeername", attach |-> sysCall, fn |-> "getpeername"]>>, EssentialEvent |-> FALSE, Sets |-> <<"syscalls", "net", "net_sock">>],
    [Key |-> "SocketpairEventID", ID |-> "SocketpairEventID", ID32Bit |-> "sys32socketpair", Name |-> "socketpair", Probes |-> <<[event |-> "socketpair", attach |-> sysCall, fn |-> "socketpair"]>>, EssentialEvent |-> FALSE, Sets |-> <<"syscalls", "net", "net_sock">>],
    [Key |-> "SetsockoptEventID", ID |-> "SetsockoptEventID", ID32Bit |-> "sys32setsockopt", Name |-> "setsockopt", Probes |-> <<[event |-> "setsockopt", attach |-> sysCall, fn |-> "setsockopt"]>>, EssentialEvent |-> FALSE, Sets |-> <<"syscalls", "net", "net_sock">>],
    [Key |-> "GetsockoptEventID", ID |-> "GetsockoptEventID", ID32Bit |-> "sys32getsockopt", Name |-> "getsockopt", Probes |-> <<[event |-> "getsockopt", attach |-> sysCall, fn |-> "getsockopt"]>>, EssentialEvent |-> FALSE, Sets |-> <<"syscalls", "net", "net_sock">>],
    [Key |-> "CloneEventID", ID |-> "CloneEventID", ID32Bit |-> "sys32clone", Name |-> "clone", Probes |-> <<[event |-> "clone", attach |-> sysCall, fn |-> "clone"]>>, EssentialEvent |-> FALSE, Sets |-> <<"default", "syscalls", "proc", "proc_life">>],
    [Key |-> "ForkEventID", ID |-> "ForkEventID", ID32Bit |-> "sys32fork", Name |-> "fork", Probes |-> <<[event |-> "fork", attach |-> sysCall, fn |-> "fork"]>>, EssentialEvent |-> FALSE, Sets |-> <<"default", "syscalls", "proc", "proc_life">>],
    [Key |-> "VforkEventID", ID |-> "VforkEventID", ID32Bit |-> "sys32vfork", Name |-> "vfork", Probes |-> <<[event |-> "vfork", attach |-> sysCall, fn |-> "vfork"]>>, EssentialEvent |-> FALSE, Sets |-> <<"default", "syscalls", "proc", "proc_life">>],
    [Key |-> "ExecveEventID", ID |-> "ExecveEventID", ID32Bit |-> "sys32execve", Name |-> "execve", Probes |-> <<[event |-> "execve", attach |-> sysCall, fn |-> "execve"]>>, EssentialEvent |-> FALSE, Sets |-> <<"default", "syscalls", "proc", "proc_life">>],
    [Key |-> "ExitEventID", ID |-> "ExitEventID", ID32Bit |-> "sys32exit", Name |-> "exit", Probes |-> <<[event |-> "exit", attach |-> sysCall, fn |-> "exit"]>>, EssentialEvent |-> FALSE, Sets |-> <<"syscalls", "proc", "proc_life">>],
    [Key |-> "Wait4EventID", ID |-> "Wait4EventID", ID32Bit |-> "sys32wait4", Name |-> "wait4", Probes |-> <<[event |-> "wait4", attach |-> sysCall, fn |-> "wait4"]>>, EssentialEvent |-> FALSE, Sets |-> <<"syscalls", "proc", "proc_life">>],
    [Key |-> "KillEventID", ID |-> "KillEventID", ID32Bit |-> "sys32kill", Name |-> "kill", Probes |-> <<[event |-> "kill", attach |-> sysCall, fn |-> "kill"]>>, EssentialEvent |-> FALSE, Sets |-> <<"default", "syscalls", "signals">>],
    [Key |-> "UnameEventID", ID |-> "UnameEventID", ID32Bit |-> "sys32uname", Name |-> "uname", Probes |-> <<[event |-> "uname", attach |-> sysCall, fn |-> "uname"]>>, EssentialEvent |-> FALSE, Sets |-> <<"syscalls", "system">>],
    [Key |-> "SemgetEventID", ID |-> "SemgetEventID", ID32Bit |-> "sys32semget", Name |-> "semget", Probes |-> <<[event |-> "semget", attach |-> sysCall, fn |-> "semget"]>>, EssentialEvent |-> FALSE, Sets |-> <<"syscalls", "ipc", "ipc_sem">>],
    [Key |-> "SemopEventID", ID |-> "SemopEventID", ID32Bit |-> "sys32undefined", Name |-> "semop", Probes |-> <<[event |-> "semop", attach |-> sysCall, fn |-> "semop"]>>, EssentialEvent |-> FALSE, Sets |-> <<"syscalls", "ipc", "ipc_sem">>],
    [Key |-> "SemctlEventID", ID |-> "SemctlEventID", ID32Bit |-> "sys32semctl", Name |-> "semctl", Probes |-> <<[event |-> "semctl", attach |-> sysCall, fn |-> "semctl"]>>, EssentialEvent |-> FALSE, Sets |-> <<"syscalls", "ipc", "ipc_sem">>],
    [Key |-> "ShmdtEventID", ID |-> "ShmdtEventID", ID32Bit |-> "sys32shmdt", Name |-> "shmdt", Probes |-> <<[event |-> "shmdt", attach |-> sysCall, fn |-> "shmdt"]>>, EssentialEvent |-> FALSE, Sets |-> <<"syscalls", "ipc", "ipc_shm">>],
    [Key |-> "MsggetEventID", ID |-> "MsggetEventID", ID32Bit |-> "sys32msgget", Name |-> "msgget", Probes |-> <<[event |-> "msgget", attach |-> sysCall, fn |-> "msgget"]>>, EssentialEvent |-> FALSE, Sets |-> <<"syscalls", "ipc", "ipc_msgq">>],
    [Key |-> "MsgsndEventID", ID |-> "MsgsndEventID", ID32Bit |-> "sys32msgsnd", Name |-> "msgsnd", Probes |-> <<[event |-> "msgsnd", attach |-> sysCall, fn |-> "msgsnd"]>>, EssentialEvent |-> FALSE, Sets |-> <<"syscalls", "ipc", "ipc_msgq">>],
    [Key |-> "MsgrcvEventID", ID |-> "MsgrcvEventID", ID32Bit |-> "sys32msgrcv", Name |-> "msgrcv", Probes |-> <<[event |-> "msgrcv", attach |-> sysCall, fn |-> "msgrcv"]>>, EssentialEvent |-> FALSE, Sets |-> <<"syscalls", "ipc", "ipc_msgq">>],
    [Key |-> "MsgctlEventID", ID |-> "MsgctlEventID", ID32Bit |-> "sys32msgctl", Name |-> "msgctl", Probes |-> <<[event |-> "msgctl", attach |-> sysCall, fn |-> "msgctl"]>>, EssentialEvent |-> FALSE, Sets |-> <<"syscalls", "ipc", "ipc_msgq">>],
    [Key |-> "FcntlEventID", ID |-> "FcntlEventID", ID32Bit |-> "sys32fcntl", Name |-> "fcntl", Probes |-> <<[event |-> "fcntl", attach |-> sysCall, fn |-> "fcntl"]>>, EssentialEvent |-> FALSE, Sets |-> <<"syscalls", "fs", "fs_fd_ops">>],
    [Key |-> "FlockEventID", ID |-> "FlockEventID", ID32Bit |-> "sys32flock", Name |-> "flock", Probes |-> <<[event |-> "flock", attach |-> sysCall, fn |-> "flock"]>>, EssentialEvent |-> FALSE, Sets |-> <<"syscalls", "fs", "fs_fd_ops">>],
    [Key |-> "FsyncEventID", ID |-> "FsyncEventID", ID32Bit |-> "sys32fsync", Name |-> "fsync", Probes |-> <<[event |-> "fsync", attach |-> sysCall, fn |-> "fsync"]>>, EssentialEvent |-> FALSE, Sets |-> <<"syscalls", "fs", "fs_sync">>],
    [Key |-> "FdatasyncEventID", ID |-> "FdatasyncEventID", ID32Bit |-> "sys32fdatasync", Name |-> "fdatasync", Probes |-> <<[event |-> "fdatasync", attach |-> sysCall, fn |-> "fdatasync"]>>, EssentialEvent |-> FALSE, Sets |-> <<"syscalls", "fs", "fs_sync">>],
    [Key |-> "TruncateEventID", ID |-> "TruncateEventID", ID32Bit |-> "sys32truncate", Name |-> "truncate", Probes |-> <<[event |-> "truncate", attach |-> sysCall, fn |-> "truncate"]>>, EssentialEvent |-> FALSE, Sets |-> <<"syscalls", "fs", "fs_file_ops">>],
    [Key |-> "FtruncateEventID", ID |-> "FtruncateEventID", ID32Bit |-> "sys32ftruncate", Name |-> "ftruncate", Probes |-> <<[event |-> "ftruncate", attach |-> sysCall, fn |-> "ftruncate"]>>, EssentialEvent |-> FALSE, Sets |-> <<"syscalls", "fs", "fs_file_ops">>],
    [Key |-> "GetdentsEventID", ID |-> "GetdentsEventID", ID32Bit |-> "sys32getdents", Name |-> "getdents", Probes |-> <<[event |-> "getdents", attach |-> sysCall, fn |-> "getdents"]>>, EssentialEvent |-> FALSE, Sets |-> <<"default", "syscalls", "fs", "fs_dir_ops">>],
    [Key |-> "GetcwdEventID", ID |-> "GetcwdEventID", ID32Bit |-> "sys32getcwd", Name |-> "getcwd", Probes |-> <<[event |-> "getcwd", attach |-> sysCall, fn |-> "getcwd"]>>, EssentialEvent |-> FALSE, Sets |-> <<"syscalls", "fs", "fs_dir_ops">>],
    [Key |-> "ChdirEventID", ID |-> "ChdirEventID", ID32Bit |-> "sys32chdir", Name |-> "chdir", Probes |-> <<[event |-> "chdir", attach |-> sysCall, fn |-> "chdir"]>>, EssentialEvent |-> FALSE, Sets |-> <<"syscalls", "fs", "fs_dir_ops">>],
    [Key |-> "FchdirEventID", ID |-> "FchdirEventID", ID32Bit |-> "sys32fchdir", Name |-> "fchdir", Probes |-> <<[event |-> "fchdir", attach |-> sysCall, fn |-> "fchdir"]>>, EssentialEvent |-> FALSE, Sets |-> <<"syscalls", "fs", "fs_dir_ops">>],
    [Key |-> "RenameEventID", ID |-> "RenameEventID", ID32Bit |-> "sys32rename", Name |-> "rename", Probes |-> <<[event |-> "rename", attach |-> sysCall, fn |-> "rename"]>>, EssentialEvent |-> FALSE, Sets |-> <<"syscalls", "fs", "fs_file_ops">>],
    [Key |-> "MkdirEventID", ID |-> "MkdirEventID", ID32Bit |-> "sys32mkdir", Name |-> "mkdir", Probes |-> <<[event |-> "mkdir", attach |-> sysCall, fn |-> "mkdir"]>>, EssentialEvent |-> FALSE, Sets |-> <<"syscalls", "fs", "fs_dir_ops">>],
    [Key |-> "RmdirEventID", ID |-> "RmdirEventID", ID32Bit |-> "sys32rmdir", Name |-> "rmdir", Probes |-> <<[event |-> "rmdir", attach |-> sysCall, fn |-> "rmdir"]>>, EssentialEvent |-> FALSE, Sets |-> <<"syscalls", "fs", "fs_dir_ops">>],
    [Key |-> "CreatEventID", ID |-> "CreatEventID", ID32Bit |-> "sys32creat", Name |-> "creat", Probes |-> <<[event |-> "creat", attach |-> sysCall, fn |-> "creat"]>>, EssentialEvent |-> FALSE, Sets |-> <<"default", "syscalls", "fs", "fs_file_ops">>],
    [Key |-> "LinkEventID", ID |-> "LinkEventID", ID32Bit |-> "sys32link", Name |-> "link", Probes |-> <<[event |-> "link", attach |-> sysCall, fn |-> "link"]>>, EssentialEvent |-> FALSE, Sets |-> <<"syscalls", "fs", "fs_link_ops">>],
    [Key |-> "UnlinkEventID", ID |-> "UnlinkEventID", ID32Bit |-> "sys32unlink", Name |-> "unlink", Probes |-> <<[event |-> "unlink", attach |-> sysCall, fn |-> "unlink"]>>, EssentialEvent |-> FALSE, Sets |-> <<"default", "syscalls", "fs", "fs_link_ops">>],
    [Key |-> "SymlinkEventID", ID |-> "SymlinkEventID", ID32Bit |-> "sys32symlink", Name |-> "symlink", Probes |-> <<[event |-> "symlink", attach |-> sysCall, fn |-> "symlink"]>>, EssentialEvent |-> FALSE, Sets |-> <<"default", "syscalls", "fs", "fs_link_ops">>],
    [Key |-> "ReadlinkEventID", ID |-> "ReadlinkEventID", ID32Bit |-> "sys32readlink", Name |-> "readlink", Probes |-> <<[event |-> "readlink", attach |-> sysCall, fn |-> "readlink"]>>, EssentialEvent |-> FALSE, Sets |-> <<"syscalls", "fs", "fs_link_ops">>],
    [Key |-> "ChmodEventID", ID |-> "ChmodEventID", ID32Bit |-> "sys32chmod", Name |-> "chmod", Probes |-> <<[event |-> "chmod", attach |-> sysCall, fn |-> "chmod"]>>, EssentialEvent |-> FALSE, Sets |-> <<"default", "syscalls", "fs", "fs_file_attr">>],
    [Key |-> "FchmodEventID", ID |-> "FchmodEventID", ID32Bit |-> "sys32fchmod", Name |-> "fchmod", Probes |-> <<[event |-> "fchmod", attach |-> sysCall, fn |-> "fchmod"]>>, EssentialEvent |-> FALSE, Sets |-> <<"default", "syscalls", "fs", "fs_file_attr">>],
    [Key |-> "ChownEventID", ID |-> "ChownEventID", ID32Bit |-> "sys32chown", Name |-> "chown", Probes |-> <<[event |-> "chown", attach |-> sysCall, fn |-> "chown"]>>, EssentialEvent |-> FALSE, Sets |-> <<"default", "syscalls", "fs", "fs_file_attr">>],
    [Key |-> "FchownEventID", ID |-> "FchownEventID", ID32Bit |-> "sys32fchown", Name |-> "fchown", Probes |-> <<[event |-> "fchown", attach |-> sysCall, fn |-> "fchown"]>>, EssentialEvent |-> FALSE, Sets |-> <<"default", "syscalls", "fs", "fs_file_attr">>],
    [Key |-> "LchownEventID", ID |-> "LchownEventID", ID32Bit |-> "sys32lchown", Name |-> "lchown", Probes |-> <<[event |-> "lchown", attach |-> sysCall, fn |-> "lchown"]>>, EssentialEvent |-> FALSE, Sets |-> <<"default", "syscalls", "fs", "fs_file_attr">>],
    [Key |-> "UmaskEventID", ID |-> "UmaskEventID", ID32Bit |-> "sys32umask", Name |-> "umask", Probes |-> <<[event |-> "umask", attach |-> sysCall, fn |-> "umask"]>>, EssentialEvent |-> FALSE, Sets |-> <<"syscalls", "fs", "fs_file_attr">>],
    [Key |-> "GettimeofdayEventID", ID |-> "GettimeofdayEventID", ID32Bit |-> "sys32gettimeofday", Name |-> "gettimeofday", Probes |-> <<[event |-> "gettimeofday", attach |-> sysCall, fn |-> "gettimeofday"]>>, EssentialEvent |-> FALSE, Sets |-> <<"syscalls", "time", "time_tod">>],
    [Key |-> "GetrlimitEventID", ID |-> "GetrlimitEventID", ID32Bit |-> "sys32getrlimit", Name |-> "getrlimit", Probes |-> <<[event |-> "getrlimit", attach |-> sysCall, fn |-> "getrlimit"]>>, EssentialEvent |-> FALSE, Sets |-> <<"syscalls", "proc">>],
    [Key |-> "GetrusageEventID", ID |-> "GetrusageEventID", ID32Bit |-> "sys32getrusage", Name |-> "getrusage", Probes |-> <<[event |-> "getrusage", attach |-> sysCall, fn |-> "getrusage"]>>, EssentialEvent |-> FALSE, Sets |-> <<"syscalls", "proc">>],
    [Key |-> "SysinfoEventID", ID |-> "SysinfoEventID", ID32Bit |-> "sys32sysinfo", Name |-> "sysinfo", Probes |-> <<[event |-> "sysinfo", attach |-> sysCall, fn |-> "sysinfo"]>>, EssentialEvent |-> FALSE, Sets |-> <<"syscalls", "system">>],
    [Key |-> "TimesEventID", ID |-> "TimesEventID", ID32Bit |-> "sys32times", Name |-> "times", Probes |-> <<[event |-> "times", attach |-> sysCall, fn |-> "times"]>>, EssentialEvent |-> FALSE, Sets |-> <<"syscalls", "proc">>],
    [Key |-> "PtraceEventID", ID |-> "PtraceEventID", ID32Bit |-> "sys32ptrace", Name |-> "ptrace", Probes |-> <<[event |-> "ptrace", attach |-> sysCall, fn |-> "ptrace"]>>, EssentialEvent |-> FALSE, Sets |-> <<"default", "syscalls", "proc">>],
    [Key |-> "GetuidEventID", ID |-> "GetuidEventID", ID32Bit |-> "sys32getuid", Name |-> "getuid", Probes |-> <<[event |-> "getuid", attach |-> sysCall, fn |-> "getuid"]>>, EssentialEvent |-> FALSE, Sets |-> <<"syscalls", "proc", "proc_ids">>],
    [Key |-> "SyslogEventID", ID |-> "SyslogEventID", ID32Bit |-> "sys32syslog", Name |-> "syslog", Probes |-> <<[event |-> "syslog", attach |-> sysCall, fn |-> "syslog"]>>, EssentialEvent |-> FALSE, Sets |-> <<"syscalls", "system">>],
    [Key |-> "GetgidEventID", ID |-> "GetgidEventID", ID32Bit |-> "sys32getgid", Name |-> "getgid", Probes |-> <<[event |-> "getgid", attach |-> sysCall, fn |-> "getgid"]>>, EssentialEvent |-> FALSE, Sets |-> <<"syscalls", "proc", "proc_ids">>],
    [Key |-> "SetuidEventID", ID |-> "SetuidEventID", ID32Bit |-> "sys32setuid", Name |-> "setuid", Probes |-> <<[event |-> "setuid", attach |-> sysCall, fn |-> "setuid"]>>, EssentialEvent |-> FALSE, Sets |-> <<"default", "syscalls", "proc", "proc_ids">>],
    [Key |-> "SetgidEventID", ID |-> "SetgidEventID", ID32Bit |-> "sys32setgid", Name |-> "setgid", Probes |-> <<[event |-> "setgid", attach |-> sysCall, fn |-> "setgid"]>>, EssentialEvent |-> FALSE, Sets |-> <<"default", "syscalls", "proc", "proc_ids">>],
    [Key |-> "GeteuidEventID", ID |-> "GeteuidEventID", ID32Bit |-> "sys32geteuid", Name |-> "geteuid", Probes |-> <<[event |-> "geteuid", attach |-> sysCall, fn |-> "geteuid"]>>, EssentialEvent |-> FALSE, Sets |-> <<"syscalls", "proc", "proc_ids">>],
    [Key |-> "GetegidEventID", ID |-> "GetegidEventID", ID32Bit |-> "sys32getegid", Name |-> "getegid", Probes |-> <<[event |-> "getegid", attach |-> sysCall, fn |-> "getegid"]>>, EssentialEvent |-> FALSE, Sets |-> <<"syscalls", "proc", "proc_ids">>],
    [Key |-> "SetpgidEventID", ID |-> "SetpgidEventID", ID32Bit |-> "sys32setpgid", Name |-> "setpgid", Probes |-> <<[event |-> "setpgid", attach |-> sysCall, fn |-> "setpgid"]>>, EssentialEvent |-> FALSE, Sets |-> <<"syscalls", "proc", "proc_ids">>],
    [Key |-> "GetppidEventID", ID |-> "GetppidEventID", ID32Bit |-> "sys32getppid", Name |-> "getppid", Probes |-> <<[event |-> "getppid", attach |-> sysCall, fn |-> "getppid"]>>, EssentialEvent |-> FALSE, Sets |-> <<"syscalls", "proc", "proc_ids">>],
    [Key |-> "GetpgrpEventID", ID |-> "GetpgrpEventID", ID32Bit |-> "sys32getpgrp", Name |-> "getpgrp", Probes |-> <<[event |-> "getpgrp", attach |-> sysCall, fn |-> "getpgrp"]>>, EssentialEvent |-> FALSE, Sets |-> <<"syscalls", "proc", "proc_ids">>],
    [Key |-> "SetsidEventID", ID |-> "SetsidEventID", ID32Bit |-> "sys32setsid", Name |-> "setsid", Probes |-> <<[event |-> "setsid", attach |-> sysCall, fn |-> "setsid"]>>, EssentialEvent |-> FALSE, Sets |-> <<"syscalls", "proc", "proc_ids">>],
    [Key |-> "SetreuidEventID", ID |-> "SetreuidEventID", ID32Bit |-> "sys32setreuid", Name |-> "setreuid", Probes |-> <<[event |-> "setreuid", attach |-> sysCall, fn |-> "setreuid"]>>, EssentialEvent |-> FALSE, Sets |-> <<"default", "syscalls", "proc", "proc_ids">>],
    [Key |-> "SetregidEventID", ID |-> "SetregidEventID", ID32Bit |-> "sys32setregid", Name |-> "setregid", Probes |-> <<[event |-> "setregid", attach |-> sysCall, fn |-> "setregid"]>>, EssentialEvent |-> FALSE, Sets |-> <<"default", "syscalls", "proc", "proc_ids">>],
    [Key |-> "GetgroupsEventID", ID |-> "GetgroupsEventID", ID32Bit |-> "sys32getgroups", Name |-> "getgroups", Probes |-> <<[event |-> "getgroups", attach |-> sysCall, fn |-> "getgroups"]>>, EssentialEvent |-> FALSE, Sets |-> <<"syscalls", "proc", "proc_ids">>],
    [Key |-> "SetgroupsEventID", ID |-> "SetgroupsEventID", ID32Bit |-> "sys32setgroups", Name |-> "setgroups", Probes |-> <<[event |-> "setgroups", attach |-> sysCall, fn |-> "setgroups"]>>, EssentialEvent |-> FALSE, Sets |-> <<"syscalls", "proc", "proc_ids">>],
    [Key |-> "SetresuidEventID", ID |-> "SetresuidEventID", ID32Bit |-> "sys32setresuid", Name |-> "setresuid", Probes |-> <<[event |-> "setresuid", attach |-> sysCall, fn |-> "setresuid"]>>, EssentialEvent |-> FALSE, Sets |-> <<"syscalls", "proc", "proc_ids">>],
    [Key |-> "GetresuidEventID", ID |-> "GetresuidEventID", ID32Bit |-> "sys32getresuid", Name |-> "getresuid", Probes |-> <<[event |-> "getresuid", attach |-> sysCall, fn |-> "getresuid"]>>, EssentialEvent |-> FALSE, Sets |-> <<"syscalls", "proc", "proc_ids">>],
    [Key |-> "SetresgidEventID", ID |-> "SetresgidEventID", ID32Bit |-> "sys32setresgid", Name |-> "setresgid", Probes |-> <<[event |-> "setresgid", attach |-> sysCall, fn |-> "setresgid"]>>, EssentialEvent |-> FALSE, Sets |-> <<"syscalls", "proc", "proc_ids">>],
    [Key |-> "GetresgidEventID", ID |-> "GetresgidEventID", ID32Bit |-> "sys32getresgid", Name |-> "getresgid", Probes |-> <<[event |-> "getresgid", attach |-> sysCall, fn |-> "getresgid"]>>, EssentialEvent |-> FALSE, Sets |-> <<"syscalls", "proc", "proc_ids">>],
    [Key |-> "GetpgidEventID", ID |-> "GetpgidEventID", ID32Bit |-> "sys32getpgid", Name |-> "getpgid", Probes |-> <<[event |-> "getpgid", attach |-> sysCall, fn |-> "getpgid"]>>, EssentialEvent |-> FALSE, Sets |-> <<"syscalls", "proc", "proc_ids">>],
    [Key |-> "SetfsuidEventID", ID |-> "SetfsuidEventID", ID32Bit |-> "sys32setfsuid", Name |-> "setfsuid", Probes |-> <<[event |-> "setfsuid", attach |-> sysCall, fn |-> "setfsuid"]>>, EssentialEvent |-> FALSE, Sets |-> <<"default", "syscalls", "proc", "proc_ids">>],
    [Key |-> "SetfsgidEventID", ID |-> "SetfsgidEventID", ID32Bit |-> "sys32setfsgid", Name |-> "setfsgid", Probes |-> <<[event |-> "setfsgid", attach |-> sysCall, fn |-> "setfsgid"]>>, EssentialEvent |-> FALSE, Sets |-> <<"default", "syscalls", "proc", "proc_ids">>],
    [Key |-> "GetsidEventID", ID |-> "GetsidEventID", ID32Bit |-> "sys32getsid", Name |-> "getsid", Probes |-> <<[event |-> "getsid", attach |-> sysCall, fn |-> "getsid"]>>, EssentialEvent |-> FALSE, Sets |-> <<"syscalls", "proc", "proc_ids">>],
    [Key |-> "CapgetEventID", ID |-> "CapgetEventID", ID32Bit |-> "sys32capget", Name |-> "capget", Probes |-> <<[event |-> "capget", attach |-> sysCall, fn |-> "capget"]>>, EssentialEvent |-> FALSE, Sets |-> <<"syscalls", "proc">>],
    [Key |-> "CapsetEventID", ID |-> "CapsetEventID", ID32Bit |-> "sys32capset", Name |-> "capset", Probes |-> <<[event |-> "capset", attach |-> sysCall, fn |-> "capset"]>>, EssentialEvent |-> FALSE, Sets |-> <<"syscalls", "proc">>],
    [Key |-> "RtSigpendingEventID", ID |-> "RtSigpendingEventID", ID32Bit |-> "sys32rt_sigpending", Name |-> "rt_sigpending", Probes |-> <<[event |-> "rt_sigpending", attach |-> sysCall, fn |-> "rt_sigpending"]>>, EssentialEvent |-> FALSE, Sets |-> <<"syscalls", "signals">>],
    [Key |-> "RtSigtimedwaitEventID", ID |-> "RtSigtimedwaitEventID", ID32Bit |-> "sys32rt_sigtimedwait", Name |-> "rt_sigtimedwait", Probes |-> <<[event |-> "rt_sigtimedwait", attach |-> sysCall, fn |-> "rt_sigtimedwait"]>>, EssentialEvent |-> FALSE, Sets |-> <<"syscalls", "signals">>],
    [Key |-> "RtSigqueueinfoEventID", ID |-> "RtSigqueueinfoEventID", ID32Bit |-> "sys32rt_sigqueueinfo", Name |-> "rt_sigqueueinfo", Probes |-> <<[event |-> "rt_sigqueueinfo", attach |-> sysCall, fn |-> "rt_sigqueueinfo"]>>, EssentialEvent |-> FALSE, Sets |-> <<"syscalls", "signals">>],
    [Key |-> "RtSigsuspendEventID", ID |-> "RtSigsuspendEventID", ID32Bit |-> "sys32rt_sigsuspend", Name |-> "rt_sigsuspend", Probes |-> <<[event |-> "rt_sigsuspend", attach |-> sysCall, fn |-> "rt_sigsuspend"]>>, EssentialEvent |-> FALSE, Sets |-> <<"syscalls", "signals">>],
    [Key |-> "SigaltstackEventID", ID |-> "SigaltstackEventID", ID32Bit |-> "sys32sigaltstack", Name |-> "sigaltstack", Probes |-> <<[event |-> "sigaltstack", attach |-> sysCall, fn |-> "sigaltstack"]>>, EssentialEvent |-> FALSE, Sets |-> <<"syscalls", "signals">>],
    [Key |-> "UtimeEventID", ID |-> "UtimeEventID", ID32Bit |-> "sys32utime", Name |-> "utime", Probes |-> <<[event |-> "utime", attach |-> sysCall, fn |-> "utime"]>>, EssentialEvent |-> FALSE, Sets |-> <<"syscalls", "fs", "fs_file_attr">>],
    [Key |-> "MknodEventID", ID |-> "MknodEventID", ID32Bit |-> "sys32mknod", Name |-> "mknod", Probes |-> <<[event |-> "mknod", attach |-> sysCall, fn |-> "mknod"]>>, EssentialEvent |-> FALSE, Sets |-> <<"default", "syscalls", "fs", "fs_file_ops">>],
    [Key |-> "UselibEventID", ID |-> "UselibEventID", ID32Bit |-> "sys32uselib", Name |-> "uselib", Probes |-> <<[event |-> "uselib", attach |-> sysCall, fn |-> "uselib"]>>, EssentialEvent |-> FALSE, Sets |-> <<"syscalls", "proc">>],
    [Key |-> "PersonalityEventID", ID |-> "PersonalityEventID", ID32Bit |-> "sys32personality", Name |-> "personality", Probes |-> <<[event |-> "personality", attach |-> sysCall, fn |-> "personality"]>>, EssentialEvent |-> FALSE, Sets |-> <<"syscalls", "system">>],
    [Key |-> "UstatEventID", ID |-> "UstatEventID", ID32Bit |-> "sys32ustat", Name |-> "ustat", Probes |-> <<[event |-> "ustat", attach |-> sysCall, fn |-> "ustat"]>>, EssentialEvent |-> FALSE, Sets |-> <<"syscalls", "fs", "fs_info">>],
    [Key |-> "StatfsEventID", ID |-> "StatfsEventID", ID32Bit |-> "sys32statfs", Name |-> "statfs", Probes |-> <<[event |-> "statfs", attach |-> sysCall, fn |-> "statfs"]>>, EssentialEvent |-> FALSE, Sets |-> <<"syscalls", "fs", "fs_info">>],
    [Key |-> "FstatfsEventID", ID |-> "FstatfsEventID", ID32Bit |-> "sys32fstatfs", Name |-> "fstatfs", Probes |-> <<[event |-> "fstatfs", attach |-> sysCall, fn |-> "fstatfs"]>>, EssentialEvent |-> FALSE, Sets |-> <<"syscalls", "fs", "fs_info">>],
    [Key |-> "SysfsEventID", ID |-> "SysfsEventID", ID32Bit |-> "sys32sysfs", Name |-> "sysfs", Probes |-> <<[event |-> "sysfs", attach |-> sysCall, fn |-> "sysfs"]>>, EssentialEvent |-> FALSE, Sets |-> <<"syscalls", "fs", "fs_info">>],
    [Key |-> "GetpriorityEventID", ID |-> "GetpriorityEventID", ID32Bit |-> "sys32getpriority", Name |-> "getpriority", Probes |-> <<[event |-> "getpriority", attach |-> sysCall, fn |-> "getpriority"]>>, EssentialEvent |-> FALSE, Sets |-> <<"syscalls", "proc", "proc_sched">>],
    [Key |-> "SetpriorityEventID", ID |-> "SetpriorityEventID", ID32Bit |-> "sys32setpriority", Name |-> "setpriority", Probes |-> <<[event |-> "setpriority", attach |-> sysCall, fn |-> "setpriority"]>>, EssentialEvent |-> FALSE, Sets |-> <<"syscalls", "proc", "proc_sched">>],
    [Key |-> "SchedSetparamEventID", ID |-> "SchedSetparamEventID", ID32Bit |-> "sys32sched_setparam", Name |-> "sched_setparam", Probes |-> <<[event |-> "sched_setparam", attach |-> sysCall, fn |-> "sched_setparam"]>>, EssentialEvent |-> FALSE, Sets |-> <<"syscalls", "proc", "proc_sched">>],
    [Key |-> "SchedGetparamEventID", ID |-> "SchedGetparamEventID", ID32Bit |-> "sys32sched_getparam", Name |-> "sched_getparam", Probes |-> <<[event |-> "sched_getparam", attach |-> sysCall, fn |-> "sched_getparam"]>>, EssentialEvent |-> FALSE, Sets |-> <<"syscalls", "proc", "proc_sched">>],
    [Key |-> "SchedSetschedulerEventID", ID |-> "SchedSetschedulerEventID", ID32Bit |-> "sys32sched_setscheduler", Name |-> "sched_setscheduler", Probes |-> <<[event |-> "sched_setscheduler", attach |-> sysCall, fn |-> "sched_setscheduler"]>>, EssentialEvent |-> FALSE, Sets |-> <<"syscalls", "proc", "proc_sched">>],
    [Key |-> "SchedGetschedulerEventID", ID |-> "SchedGetschedulerEventID", ID32Bit |-> "sys32sched_getscheduler", Name |-> "sched_getscheduler", Probes |-> <<[event |-> "sched_getscheduler", attach |-> sysCall, fn |-> "sched_getscheduler"]>>, EssentialEvent |-> FALSE, Sets |-> <<"syscalls", "proc", "proc_sched">>],
    [Key |-> "SchedGetPriorityMaxEventID", ID |-> "SchedGetPriorityMaxEventID", ID32Bit |-> "sys32sched_get_priority_max", Name |-> "sched_get_priority_max", Probes |-> <<[event |-> "sched_get_priority_max", attach |-> sysCall, fn |-> "sched_get_priority_max"]>>, EssentialEvent |-> FALSE, Sets |-> <<"syscalls", "proc", "proc_sched">>],
    [Key |-> "SchedGetPriorityMinEventID", ID |-> "SchedGetPriorityMinEventID", ID32Bit |-> "sys32sched_get_priority_min", Name |-> "sched_get_priority_min", Probes |-> <<[event |-> "sched_get_priority_min", attach |-> sysCall, fn |-> "sched_get_priority_min"]>>, EssentialEvent |-> FALSE, Sets |-> <<"syscalls", "proc", "proc_sched">>],
    [Key |-> "SchedRrGetIntervalEventID", ID |-> "SchedRrGetIntervalEventID", ID32Bit |-> "sys32sched_rr_get_interval", Name |-> "sched_rr_get_interval", Probes |-> <<[event |-> "sched_rr_get_interval", attach |-> sysCall, fn |-> "sched_rr_get_interval"]>>, EssentialEvent |-> FALSE, Sets |-> <<"syscalls", "proc", "proc_sched">>],
    [Key |-> "MlockEventID", ID |-> "MlockEventID", ID32Bit |-> "sys32mlock", Name |-> "mlock", Probes |-> <<[event |-> "mlock", attach |-> sysCall, fn |-> "mlock"]>>, EssentialEvent |-> FALSE, Sets |-> <<"syscalls", "proc", "proc_mem">>],
    [Key |-> "MunlockEventID", ID |-> "MunlockEventID", ID32Bit |-> "sys32munlock", Name |-> "munlock", Probes |-> <<[event |-> "munlock", attach |-> sysCall, fn |-> "munlock"]>>, EssentialEvent |-> FALSE, Sets |-> <<"syscalls", "proc", "proc_mem">>],
    [Key |-> "MlockallEventID", ID |-> "MlockallEventID", ID32Bit |-> "sys32mlockall", Name |-> "mlockall", Probes |-> <<[event |-> "mlockall", attach |-> sysCall, fn |-> "mlockall"]>>, EssentialEvent |-> FALSE, Sets |-> <<"syscalls", "proc", "proc_mem">>],
    [Key |-> "MunlockallEventID", ID |-> "MunlockallEventID", ID32Bit |-> "sys32munlockall", Name |-> "munlockall", Probes |-> <<[event |-> "munlockall", attach |-> sysCall, fn |-> "munlockall"]>>, EssentialEvent |-> FALSE, Sets |-> <<"syscalls", "proc", "proc_mem">>],
    [Key |-> "VhangupEventID", ID |-> "VhangupEventID", ID32Bit |-> "sys32vhangup", Name |-> "vhangup", Probes |-> <<[event |-> "vhangup", attach |-> sysCall, fn |-> "vhangup"]>>, EssentialEvent |-> FALSE, Sets |-> <<"syscalls", "system">>],
    [Key |-> "ModifyLdtEventID", ID |-> "ModifyLdtEventID", ID32Bit |-> "sys32modify_ldt", Name |-> "modify_ldt", Probes |-> <<[event |-> "modify_ldt", attach |-> sysCall, fn |-> "modify_ldt"]>>, EssentialEvent |-> FALSE, Sets |-> <<"syscalls", "proc", "proc_mem">>],
    [Key |-> "PivotRootEventID", ID |-> "PivotRootEventID", ID32Bit |-> "sys32pivot_root", Name |-> "pivot_root", Probes |-> <<[event |-> "pivot_root", attach |-> sysCall, fn |-> "pivot_root"]>>, EssentialEvent |-> FALSE, Sets |-> <<"syscalls", "fs">>],
    [Key |-> "SysctlEventID", ID |-> "SysctlEventID", ID32Bit |-> "sys32undefined", Name |-> "sysctl", Probes |-> <<[event |-> "sysctl", attach |-> sysCall, fn |-> "sysctl"]>>, EssentialEvent |-> FALSE, Sets |-> <<"syscalls", "system">>],
    [Key |-> "PrctlEventID", ID |-> "PrctlEventID", ID32Bit |-> "sys32prctl", Name |-> "prctl", Probes |-> <<[event |-> "prctl", attach |-> sysCall, fn |-> "prctl"]>>, EssentialEvent |-> FALSE, Sets |-> <<"default", "syscalls", "proc">>],
    [Key |-> "ArchPrctlEventID", ID |-> "ArchPrctlEventID", ID32Bit |-> "sys32arch_prctl", Name |-> "arch_prctl", Probes |-> <<[event |-> "arch_prctl", attach |-> sysCall, fn |-> "arch_prctl"]>>, EssentialEvent |-> FALSE, Sets |-> <<"syscalls", "proc">>],
    [Key |-> "AdjtimexEventID", ID |-> "AdjtimexEventID", ID32Bit |-> "sys32adjtimex", Name |-> "adjtimex", Probes |-> <<[event |-> "adjtimex", attach |-> sysCall, fn |-> "adjtimex"]>>, EssentialEvent |-> FALSE, Sets |-> <<"syscalls", "time", "time_clock">>],
    [Key |-> "SetrlimitEventID", ID |-> "SetrlimitEventID", ID32Bit |-> "sys32setrlimit", Name |-> "setrlimit", Probes |-> <<[event |-> "setrlimit", attach |-> sysCall, fn |-> "setrlimit"]>>, EssentialEvent |-> FALSE, Sets |-> <<"syscalls", "proc">>],
    [Key |-> "ChrootEventID", ID |-> "ChrootEventID", ID32Bit |-> "sys32chroot", Name |-> "chroot", Probes |-> <<[event |-> "chroot", attach |-> sysCall, fn |-> "chroot"]>>, EssentialEvent |-> FALSE, Sets |-> <<"syscalls", "fs", "fs_dir_ops">>],
    [Key |-> "SyncEventID", ID |-> "SyncEventID", ID32Bit |-> "sys32sync", Name |-> "sync", Probes |-> <<[event |-> "sync", attach |-> sysCall, fn |-> "sync"]>>, EssentialEvent |-> FALSE, Sets |-> <<"syscalls", "fs", "fs_sync">>],
    [Key |-> "AcctEventID", ID |-> "AcctEventID", ID32Bit |-> "sys32acct", Name |-> "acct", Probes |-> <<[event |-> "acct", attach |-> sysCall, fn |-> "acct"]>>, EssentialEvent |-> FALSE, Sets |-> <<"syscalls", "system">>],
    [Key |-> "SettimeofdayEventID", ID |-> "SettimeofdayEventID", ID32Bit |-> "sys32settimeofday", Name |-> "settimeofday", Probes |-> <<[event |-> "settimeofday", attach |-> sysCall, fn |-> "settimeofday"]>>, EssentialEvent |-> FALSE, Sets |-> <<"syscalls", "time", "time_tod">>],
    [Key |-> "MountEventID", ID |-> "MountEventID", ID32Bit |-> "sys32mount", Name |-> "mount", Probes |-> <<[event |-> "mount", attach |-> sysCall, fn |-> "mount"]>>, EssentialEvent |-> FALSE, Sets |-> <<"default", "syscalls", "fs">>],
    [Key |-> "UmountEventID", ID |-> "UmountEventID", ID32Bit |-> "sys32umount", Name |-> "umount", Probes |-> <<[event |-> "umount", attach |-> sysCall, fn |-> "umount"]>>, EssentialEvent |-> FALSE, Sets |-> <<"default", "syscalls", "fs">>],
    [Key |-> "SwaponEventID", ID |-> "SwaponEventID", ID32Bit |-> "sys32swapon", Name |-> "swapon", Probes |-> <<[event |-> "swapon", attach |-> sysCall, fn |-> "swapon"]>>, EssentialEvent |-> FALSE, Sets |-> <<"syscalls", "fs">>],
    [Key |-> "SwapoffEventID", ID |-> "SwapoffEventID", ID32Bit |-> "sys32swapoff", Name |-> "swapoff", Probes |-> <<[event |-> "swapoff", attach |-> sysCall, fn |-> "swapoff"]>>, EssentialEvent |-> FALSE, Sets |-> <<"syscalls", "fs">>],
    [Key |-> "RebootEventID", ID |-> "RebootEventID", ID32Bit |-> "sys32reboot", Name |-> "reboot", Probes |-> <<[event |-> "reboot", attach |-> sysCall, fn |-> "reboot"]>>, EssentialEvent |-> FALSE, Sets |-> <<"syscalls", "system">>],
    [Key |-> "SethostnameEventID", ID |-> "SethostnameEventID", ID32Bit |-> "sys32sethostname", Name |-> "sethostname", Probes |-> <<[event |-> "sethostname", attach |-> sysCall, fn |-> "sethostname"]>>, EssentialEvent |-> FALSE, Sets |-> <<"syscalls", "net">>],
    [Key |-> "SetdomainnameEventID", ID |-> "SetdomainnameEventID", ID32Bit |-> "sys32setdomainname", Name |-> "setdomainname", Probes |-> <<[event |-> "setdomainname", attach |-> sysCall, fn |-> "setdomainname"]>>, EssentialEvent |-> FALSE, Sets |-> <<"syscalls", "net">>],
    [Key |-> "IoplEventID", ID |-> "IoplEventID", ID32Bit |-> "sys32iopl", Name |-> "iopl", Probes |-> <<[event |-> "iopl", attach |-> sysCall, fn |-> "iopl"]>>, EssentialEvent |-> FALSE, Sets |-> <<"syscalls", "system">>],
    [Key |-> "IopermEventID", ID |-> "IopermEventID", ID32Bit |-> "sys32ioperm", Name |-> "ioperm", Probes |-> <<[event |-> "ioperm", attach |-> sysCall, fn |-> "ioperm"]>>, EssentialEvent |-> FALSE, Sets |-> <<"syscalls", "system">>],
    [Key |-> "CreateModuleEventID", ID |-> "CreateModuleEventID", ID32Bit |-> "sys32create_module", Name |-> "create_module", Probes |-> <<[event |-> "create_module", attach |-> sysCall, fn |-> "create_module"]>>, EssentialEvent |-> FALSE, Sets |-> <<"syscalls", "system", "system_module">>],
    [Key |-> "InitModuleEventID", ID |-> "InitModuleEventID", ID32Bit |-> "sys32init_module", Name |-> "init_module", Probes |-> <<[event |-> "init_module", attach |-> sysCall, fn |-> "init_module"]>>, EssentialEvent |-> FALSE, Sets |-> <<"default", "syscalls", "system", "system_module">>],
    [Key |-> "DeleteModuleEventID", ID |-> "DeleteModuleEventID", ID32Bit |-> "sys32delete_module", Name |-> "delete_module", Probes |-> <<[event |-> "delete_module", attach |-> sysCall, fn |-> "delete_module"]>>, EssentialEvent |-> FALSE, Sets |-> <<"default", "syscalls", "system", "system_module">>],
    [Key |-> "GetKernelSymsEventID", ID |-> "GetKernelSymsEventID", ID32Bit |-> "sys32get_kernel_syms", Name |-> "get_kernel_syms", Probes |-> <<[event |-> "get_kernel_syms", attach |-> sysCall, fn |-> "get_kernel_syms"]>>, EssentialEvent |-> FALSE, Sets |-> <<"syscalls", "system", "system_module">>],
    [Key |-> "QueryModuleEventID", ID |-> "QueryModuleEventID", ID32Bit |-> "sys32query_module", Name |-> "query_module", Probes |-> <<[event |-> "query_module", attach |-> sysCall, fn |-> "query_module"]>>, EssentialEvent |-> FALSE, Sets |-> <<"syscalls", "system", "system_module">>],
    [Key |-> "QuotactlEventID", ID |-> "QuotactlEventID", ID32Bit |-> "sys32quotactl", Name |-> "quotactl", Probes |-> <<[event |-> "quotactl", attach |-> sysCall, fn |-> "quotactl"]>>, EssentialEvent |-> FALSE, Sets |-> <<"syscalls", "system">>],
    [Key |-> "NfsservctlEventID", ID |-> "NfsservctlEventID", ID32Bit |-> "sys32nfsservctl", Name |-> "nfsservctl", Probes |-> <<[event |-> "nfsservctl", attach |-> sysCall, fn |-> "nfsservctl"]>>, EssentialEvent |-> FALSE, Sets |-> <<"syscalls", "fs">>],
    [Key |-> "GetpmsgEventID", ID |-> "GetpmsgEventID", ID32Bit |-> "sys32getpmsg", Name |-> "getpmsg", Probes |-> <<[event |-> "getpmsg", attach |-> sysCall, fn |-> "getpmsg"]>>, EssentialEvent |-> FALSE, Sets |-> <<"syscalls">>],
    [Key |-> "PutpmsgEventID", ID |-> "PutpmsgEventID", ID32Bit |-> "sys32putpmsg", Name |-> "putpmsg", Probes |-> <<[event |-> "putpmsg", attach |-> sysCall, fn |-> "putpmsg"]>>, EssentialEvent |-> FALSE, Sets |-> <<"syscalls">>],
    [Key |-> "AfsEventID", ID |-> "AfsEventID", ID32Bit |-> "sys32undefined", Name |-> "afs", Probes |-> <<[event |-> "afs", attach |-> sysCall, fn |-> "afs"]>>, EssentialEvent |-> FALSE, Sets |-> <<"syscalls">>],
    [Key |-> "TuxcallEventID", ID |-> "TuxcallEventID", ID32Bit |-> "sys32undefined", Name |-> "tuxcall", Probes |-> <<[event |-> "tuxcall", attach |-> sysCall, fn |-> "tuxcall"]>>, EssentialEvent |-> FALSE, Sets |-> <<"syscalls">>],
    [Key |-> "SecurityEventID", ID |-> "SecurityEventID", ID32Bit |-> "sys32undefined", Name |-> "security", Probes |-> <<[event |-> "security", attach |-> sysCall, fn |-> "security"]>>, EssentialEvent |-> FALSE, Sets |-> <<"syscalls">>],
    [Key |-> "GettidEventID", ID |-> "GettidEventID", ID32Bit |-> "sys32gettid", Name |-> "gettid", Probes |-> <<[event |-> "gettid", attach |-> sysCall, fn |-> "gettid"]>>, EssentialEvent |-> FALSE, Sets |-> <<"syscalls", "proc", "proc_ids">>],
    [Key |-> "ReadaheadEventID", ID |-> "ReadaheadEventID", ID32Bit |-> "sys32readahead", Name |-> "readahead", Probes |-> <<[event |-> "readahead", attach |-> sysCall, fn |-> "readahead"]>>, EssentialEvent |-> FALSE, Sets |-> <<"syscalls", "fs">>],
    [Key |-> "SetxattrEventID", ID |-> "SetxattrEventID", ID32Bit |-> "sys32setxattr", Name |-> "setxattr", Probes |-> <<[event |-> "setxattr", attach |-> sysCall, fn |-> "setxattr"]>>, EssentialEvent |-> FALSE, Sets |-> <<"syscalls", "fs", "fs_file_attr">>],
    [Key |-> "LsetxattrEventID", ID |-> "LsetxattrEventID", ID32Bit |-> "sys32lsetxattr", Name |-> "lsetxattr", Probes |-> <<[event |-> "lsetxattr", attach |-> sysCall, fn |-> "lsetxattr"]>>, EssentialEvent |-> FALSE, Sets |-> <<"syscalls", "fs", "fs_file_attr">>],
    [Key |-> "FsetxattrEventID", ID |-> "FsetxattrEventID", ID32Bit |-> "sys32fsetxattr", Name |-> "fsetxattr", Probes |-> <<[event |-> "fsetxattr", attach |-> sysCall, fn |-> "fsetxattr"]>>, EssentialEvent |-> FALSE, Sets |-> <<"syscalls", "fs", "fs_file_attr">>],
    [Key |-> "GetxattrEventID", ID |-> "GetxattrEventID", ID32Bit |-> "sys32getxattr", Name |-> "getxattr", Probes |-> <<[event |-> "getxattr", attach |-> sysCall, fn |-> "getxattr"]>>, EssentialEvent |-> FALSE, Sets |-> <<"syscalls", "fs", "fs_file_attr">>],
    [Key |-> "LgetxattrEventID", ID |-> "LgetxattrEventID", ID32Bit |-> "sys32lgetxattr", Name |-> "lgetxattr", Probes |-> <<[event |-> "lgetxattr", attach |-> sysCall, fn |-> "lgetxattr"]>>, EssentialEvent |-> FALSE, Sets |-> <<"syscalls", "fs", "fs_file_attr">>],
    [Key |-> "FgetxattrEventID", ID |-> "FgetxattrEventID", ID32Bit |-> "sys32fgetxattr", Name |-> "fgetxattr", Probes |-> <<[event |-> "fgetxattr", attach |-> sysCall, fn |-> "fgetxattr"]>>, EssentialEvent |-> FALSE, Sets |-> <<"syscalls", "fs", "fs_file_attr">>],
    [Key |-> "ListxattrEventID", ID |-> "ListxattrEventID", ID32Bit |-> "sys32listxattr", Name |-> "listxattr", Probes |-> <<[event |-> "listxattr", attach |-> sysCall, fn |-> "listxattr"]>>, EssentialEvent |-> FALSE, Sets |-> <<"syscalls", "fs", "fs_file_attr">>],
    [Key |-> "LlistxattrEventID", ID |-> "LlistxattrEventID", ID32Bit |-> "sys32llistxattr", Name |-> "llistxattr", Probes |-> <<[event |-> "llistxattr", attach |-> sysCall, fn |-> "llistxattr"]>>, EssentialEvent |-> FALSE, Sets |-> <<"syscalls", "fs", "fs_file_attr">>],
    [Key |-> "FlistxattrEventID", ID |-> "FlistxattrEventID", ID32Bit |-> "sys32flistxattr", Name |-> "flistxattr", Probes |-> <<[event |-> "flistxattr", attach |-> sysCall, fn |-> "flistxattr"]>>, EssentialEvent |-> FALSE, Sets |-> <<"syscalls", "fs", "fs_file_attr">>],
    [Key |-> "RemovexattrEventID", ID |-> "RemovexattrEventID", ID32Bit |-> "sys32removexattr", Name |-> "removexattr", Probes |-> <<[event |-> "removexattr", attach |-> sysCall, fn |-> "removexattr"]>>, EssentialEvent |-> FALSE, Sets |-> <<"syscalls", "fs", "fs_file_attr">>],
    [Key |-> "LremovexattrEventID", ID |-> "LremovexattrEventID", ID32Bit |-> "sys32lremovexattr", Name |-> "lremovexattr", Probes |-> <<[event |-> "lremovexattr", attach |-> sysCall, fn |-> "lremovexattr"]>>, EssentialEvent |-> FALSE, Sets |-> <<"syscalls", "fs", "fs_file_attr">>],
    [Key |-> "FremovexattrEventID", ID |-> "FremovexattrEventID", ID32Bit |-> "sys32fremovexattr", Name |-> "fremovexattr", Probes |-> <<[event |-> "fremovexattr", attach |-> sysCall, fn |-> "fremovexattr"]>>, EssentialEvent |-> FALSE, Sets |-> <<"syscalls", "fs", "fs_file_attr">>],
    [Key |-> "TkillEventID", ID |-> "TkillEventID", ID32Bit |-> "sys32tkill", Name |-> "tkill", Probes |-> <<[event |-> "tkill", attach |-> sysCall, fn |-> "tkill"]>>, EssentialEvent |-> FALSE, Sets |-> <<"syscalls", "signals">>],
    [Key |-> "TimeEventID", ID |-> "TimeEventID", ID32Bit |-> "sys32time", Name |-> "time", Probes |-> <<[event |-> "time", attach |-> sysCall, fn |-> "time"]>>, EssentialEvent |-> FALSE, Sets |-> <<"syscalls", "time", "time_tod">>],
    [Key |-> "FutexEventID", ID |-> "FutexEventID", ID32Bit |-> "sys32futex", Name |-> "futex", Probes |-> <<[event |-> "futex", attach |-> sysCall, fn |-> "futex"]>>, EssentialEvent |-> FALSE, Sets |-> <<"syscalls", "ipc", "ipc_futex">>],
    [Key |-> "SchedSetaffinityEventID", ID |-> "SchedSetaffinityEventID", ID32Bit |-> "sys32sched_setaffinity", Name |-> "sched_setaffinity", Probes |-> <<[event |-> "sched_setaffinity", attach |-> sysCall, fn |-> "sched_setaffinity"]>>, EssentialEvent |-> FALSE, Sets |-> <<"syscalls", "proc", "proc_sched">>],
    [Key |-> "SchedGetaffinityEventID", ID |-> "SchedGetaffinityEventID", ID32Bit |-> "sys32sched_getaffinity", Name |-> "sched_getaffinity", Probes |-> <<[event |-> "sched_getaffinity", attach |-> sysCall, fn |-> "sched_getaffinity"]>>, EssentialEvent |-> FALSE, Sets |-> <<"syscalls", "proc", "proc_sched">>],
    [Key |-> "SetThreadAreaEventID", ID |-> "SetThreadAreaEventID", ID32Bit |-> "sys32set_thread_area", Name |-> "set_thread_area", Probes |-> <<[event |-> "set_thread_area", attach |-> sysCall, fn |-> "set_thread_area"]>>, EssentialEvent |-> FALSE, Sets |-> <<"syscalls", "proc">>],
    [Key |-> "IoSetupEventID", ID |-> "IoSetupEventID", ID32Bit |-> "sys32io_setup", Name |-> "io_setup", Probes |-> <<[event |-> "io_setup", attach |-> sysCall, fn |-> "io_setup"]>>, EssentialEvent |-> FALSE, Sets |-> <<"syscalls", "fs", "fs_async_io">>],
    [Key |-> "IoDestroyEventID", ID |-> "IoDestroyEventID", ID32Bit |-> "sys32io_destroy", Name |-> "io_destroy", Probes |-> <<[event |-> "io_destroy", attach |-> sysCall, fn |-> "io_destroy"]>>, EssentialEvent |-> FALSE, Sets |-> <<"syscalls", "fs", "fs_async_io">>],
    [Key |-> "IoGeteventsEventID", ID |-> "IoGeteventsEventID", ID32Bit |-> "sys32io_getevents", Name |-> "io_getevents", Probes |-> <<[event |-> "io_getevents", attach |-> sysCall, fn |-> "io_getevents"]>>, EssentialEvent |-> FALSE, Sets |-> <<"syscalls", "fs", "fs_async_io">>],
    [Key |-> "IoSubmitEventID", ID |-> "IoSubmitEventID", ID32Bit |-> "sys32io_submit", Name |-> "io_submit", Probes |-> <<[event |-> "io_submit", attach |-> sysCall, fn |-> "io_submit"]>>, EssentialEvent |-> FALSE, Sets |-> <<"syscalls", "fs", "fs_async_io">>],
    [Key |-> "IoCancelEventID", ID |-> "IoCancelEventID", ID32Bit |-> "sys32io_cancel", Name |-> "io_cancel", Probes |-> <<[event |-> "io_cancel", attach |-> sysCall, fn |-> "io_cancel"]>>, EssentialEvent |-> FALSE, Sets |-> <<"syscalls", "fs", "fs_async_io">>],
    [Key |-> "GetThreadAreaEventID", ID |-> "GetThreadAreaEventID", ID32Bit |-> "sys32get_thread_area", Name |-> "get_thread_area", Probes |-> <<[event |-> "get_thread_area", attach |-> sysCall, fn |-> "get_thread_area"]>>, EssentialEvent |-> FALSE, Sets |-> <<"syscalls", "proc">>],
    [Key |-> "LookupDcookieEventID", ID |-> "LookupDcookieEventID", ID32Bit |-> "sys32lookup_dcookie", Name |-> "lookup_dcookie", Probes |-> <<[event |-> "lookup_dcookie", attach |-> sysCall, fn |-> "lookup_dcookie"]>>, EssentialEvent |-> FALSE, Sets |-> <<"syscalls", "fs", "fs_dir_ops">>],
    [Key |-> "EpollCreateEventID", ID |-> "EpollCreateEventID", ID32Bit |-> "sys32epoll_create", Name |-> "epoll_create", Probes |-> <<[event |-> "epoll_create", attach |-> sysCall, fn |-> "epoll_create"]>>, EssentialEvent |-> FALSE, Sets |-> <<"syscalls", "fs", "fs_mux_io">>],
    [Key |-> "EpollCtlOldEventID", ID |-> "EpollCtlOldEventID", ID32Bit |-> "sys32undefined", Name |-> "epoll_ctl_old", Probes |-> <<[event |-> "epoll_ctl_old", attach |-> sysCall, fn |-> "epoll_ctl_old"]>>, EssentialEvent |-> FALSE, Sets |-> <<"syscalls", "fs", "fs_mux_io">>],
    [Key |-> "EpollWaitOldEventID", ID |-> "EpollWaitOldEventID", ID32Bit |-> "sys32undefined", Name |-> "epoll_wait_old", Probes |-> <<[event |-> "epoll_wait_old", attach |-> sysCall, fn |-> "epoll_wait_old"]>>, EssentialEvent |-> FALSE, Sets |-> <<"syscalls", "fs", "fs_mux_io">>],
    [Key |-> "RemapFilePagesEventID", ID |-> "RemapFilePagesEventID", ID32Bit |-> "sys32remap_file_pages", Name |-> "remap_file_pages", Probes |-> <<[event |-> "remap_file_pages", attach |-> sysCall, fn |-> "remap_file_pages"]>>, EssentialEvent |-> FALSE, Sets |-> <<"syscalls">>],
    [Key |-> "Getdents64EventID", ID |-> "Getdents64EventID", ID32Bit |-> "sys32getdents64", Name |-> "getdents64", Probes |-> <<[event |-> "getdents64", attach |-> sysCall, fn |-> "getdents64"]>>, EssentialEvent |-> FALSE, Sets |-> <<"default", "syscalls", "fs", "fs_dir_ops">>],
    [Key |-> "SetTidAddressEventID", ID |-> "SetTidAddressEventID", ID32Bit |-> "sys32set_tid_address", Name |-> "set_tid_address", Probes |-> <<[event |-> "set_tid_address", attach |-> sysCall, fn |-> "set_tid_address"]>>, EssentialEvent |-> FALSE, Sets |-> <<"syscalls", "proc">>],
    [Key |-> "RestartSyscallEventID", ID |-> "RestartSyscallEventID", ID32Bit |-> "sys32restart_syscall", Name |-> "restart_syscall", Probes |-> <<[event |-> "restart_syscall", attach |-> sysCall, fn |-> "restart_syscall"]>>, EssentialEvent |-> FALSE, Sets |-> <<"syscalls", "signals">>],
    [Key |-> "SemtimedopEventID", ID |-> "SemtimedopEventID", ID32Bit |-> "sys32semtimedop_time64", Name |-> "semtimedop", Probes |-> <<[event |-> "semtimedop", attach |-> sysCall, fn |-> "semtimedop"]>>, EssentialEvent |-> FALSE, Sets |-> <<"syscalls", "ipc", "ipc_sem">>],
    [Key |-> "Fadvise64EventID", ID |-> "Fadvise64EventID", ID32Bit |-> "sys32fadvise64", Name |-> "fadvise64", Probes |-> <<[event |-> "fadvise64", attach |-> sysCall, fn |-> "fadvise64"]>>, EssentialEvent |-> FALSE, Sets |-> <<"syscalls", "fs">>],
    [Key |-> "TimerCreateEventID", ID |-> "TimerCreateEventID", ID32Bit |-> "sys32timer_create", Name |-> "timer_create", Probes |-> <<[event |-> "timer_create", attach |-> sysCall, fn |-> "timer_create"]>>, EssentialEvent |-> FALSE, Sets |-> <<"syscalls", "time", "time_timer">>],
    [Key |-> "TimerSettimeEventID", ID |-> "TimerSettimeEventID", ID32Bit |-> "sys32timer_settime", Name |-> "timer_settime", Probes |-> <<[event |-> "timer_settime", attach |-> sysCall, fn |-> "timer_settime"]>>, EssentialEvent |-> FALSE, Sets |-> <<"syscalls", "time", "time_timer">>],
    [Key |-> "TimerGettimeEventID", ID |-> "TimerGettimeEventID", ID32Bit |-> "sys32timer_gettime", Name |-> "timer_gettime", Probes |-> <<[event |-> "timer_gettime", attach |-> sysCall, fn |-> "timer_gettime"]>>, EssentialEvent |-> FALSE, Sets |-> <<"syscalls", "time", "time_timer">>],
    [Key |-> "TimerGetoverrunEventID", ID |-> "TimerGetoverrunEventID", ID32Bit |-> "sys32timer_getoverrun", Name |-> "timer_getoverrun", Probes |-> <<[event |-> "timer_getoverrun", attach |-> sysCall, fn |-> "timer_getoverrun"]>>, EssentialEvent |-> FALSE, Sets |-> <<"syscalls", "time", "time_timer">>],
    [Key |-> "TimerDeleteEventID", ID |-> "TimerDeleteEventID", ID32Bit |-> "sys32timer_delete", Name |-> "timer_delete", Probes |-> <<[event |-> "timer_delete", attach |-> sysCall, fn |-> "timer_delete"]>>, EssentialEvent |-> FALSE, Sets |-> <<"syscalls", "time", "time_timer">>],
    [Key |-> "ClockSettimeEventID", ID |-> "ClockSettimeEventID", ID32Bit |-> "sys32clock_settime", Name |-> "clock_settime", Probes |-> <<[event |-> "clock_settime", attach |-> sysCall, fn |-> "clock_settime"]>>, EssentialEvent |-> FALSE, Sets |-> <<"syscalls", "time", "time_clock">>],
    [Key |-> "ClockGettimeEventID", ID |-> "ClockGettimeEventID", ID32Bit |-> "sys32clock_gettime", Name |-> "clock_gettime", Probes |-> <<[event |-> "clock_gettime", attach |-> sysCall, fn |-> "clock_gettime"]>>, EssentialEvent |-> FALSE, Sets |-> <<"syscalls", "time", "time_clock">>],
    [Key |-> "ClockGetresEventID", ID |-> "ClockGetresEventID", ID32Bit |-> "sys32clock_getres", Name |-> "clock_getres", Probes |-> <<[event |-> "clock_getres", attach |-> sysCall, fn |-> "clock_getres"]>>, EssentialEvent |-> FALSE, Sets |-> <<"syscalls", "time", "time_clock">>],
    [Key |-> "ClockNanosleepEventID", ID |-> "ClockNanosleepEventID", ID32Bit |-> "sys32clock_nanosleep", Name |-> "clock_nanosleep", Probes |-> <<[event |-> "clock_nanosleep", attach |-> sysCall, fn |-> "clock_nanosleep"]>>, EssentialEvent |-> FALSE, Sets |-> <<"syscalls", "time", "time_clock">>],
    [Key |-> "ExitGroupEventID", ID |-> "ExitGroupEventID", ID32Bit |-> "sys32exit_group", Name |-> "exit_group", Probes |-> <<[event |-> "exit_group", attach |-> sysCall, fn |-> "exit_group"]>>, EssentialEvent |-> FALSE, Sets |-> <<"syscalls", "proc", "proc_life">>],
    [Key |-> "EpollWaitEventID", ID |-> "EpollWaitEventID", ID32Bit |-> "sys32epoll_wait", Name |-> "epoll_wait", Probes |-> <<[event |-> "epoll_wait", attach |-> sysCall, fn |-> "epoll_wait"]>>, EssentialEvent |-> FALSE, Sets |-> <<"syscalls", "fs", "fs_mux_io">>],
    [Key |-> "EpollCtlEventID", ID |-> "EpollCtlEventID", ID32Bit |-> "sys32epoll_ctl", Name |-> "epoll_ctl", Probes |-> <<[event |-> "epoll_ctl", attach |-> sysCall, fn |-> "epoll_ctl"]>>, EssentialEvent |-> FALSE, Sets |-> <<"syscalls", "fs", "fs_mux_io">>],
    [Key |-> "TgkillEventID", ID |-> "TgkillEventID", ID32Bit |-> "sys32tgkill", Name |-> "tgkill", Probes |-> <<[event |-> "tgkill", attach |-> sysCall, fn |-> "tgkill"]>>, EssentialEvent |-> FALSE, Sets |-> <<"syscalls", "signals">>],
    [Key |-> "UtimesEventID", ID |-> "UtimesEventID", ID32Bit |-> "sys32utimes", Name |-> "utimes", Probes |-> <<[event |-> "utimes", attach |-> sysCall, fn |-> "utimes"]>>, EssentialEvent |-> FALSE, Sets |-> <<"syscalls", "fs", "fs_file_attr">>],
    [Key |-> "VserverEventID", ID |-> "VserverEventID", ID32Bit |-> "sys32vserver", Name |-> "vserver", Probes |-> <<[event |-> "vserver", attach |-> sysCall, fn |-> "vserver"]>>, EssentialEvent |-> FALSE, Sets |-> <<"syscalls">>],
    [Key |-> "MbindEventID", ID |-> "MbindEventID", ID32Bit |-> "sys32mbind", Name |-> "mbind", Probes |-> <<[event |-> "mbind", attach |-> sysCall, fn |-> "mbind"]>>, EssentialEvent |-> FALSE, Sets |-> <<"syscalls", "system", "system_numa">>],
    [Key |-> "SetMempolicyEventID", ID |-> "SetMempolicyEventID", ID32Bit |-> "sys32set_mempolicy", Name |-> "set_mempolicy", Probes |-> <<[event |-> "set_mempolicy", attach |-> sysCall, fn |-> "set_mempolicy"]>>, EssentialEvent |-> FALSE, Sets |-> <<"syscalls", "system", "system_numa">>],
    [Key |-> "GetMempolicyEventID", ID |-> "GetMempolicyEventID", ID32Bit |-> "sys32get_mempolicy", Name |-> "get_mempolicy", Probes |-> <<[event |-> "get_mempolicy", attach |-> sysCall, fn |-> "get_mempolicy"]>>, EssentialEvent |-> FALSE, Sets |-> <<"syscalls", "system", "system_numa">>],
    [Key |-> "MqOpenEventID", ID |-> "MqOpenEventID", ID32Bit |-> "sys32mq_open", Name |-> "mq_open", Probes |-> <<[event |-> "mq_open", attach |-> sysCall, fn |-> "mq_open"]>>, EssentialEvent |-> FALSE, Sets |-> <<"syscalls", "ipc", "ipc_msgq">>],
    [Key |-> "MqUnlinkEventID", ID |-> "MqUnlinkEventID", ID32Bit |-> "sys32mq_unlink", Name |-> "mq_unlink", Probes |-> <<[event |-> "mq_unlink", attach |-> sysCall, fn |-> "mq_unlink"]>>, EssentialEvent |-> FALSE, Sets |-> <<"syscalls", "ipc", "ipc_msgq">>],
    [Key |-> "MqTimedsendEventID", ID |-> "MqTimedsendEventID", ID32Bit |-> "sys32mq_timedsend", Name |-> "mq_timedsend", Probes |-> <<[event |-> "mq_timedsend", attach |-> sysCall, fn |-> "mq_timedsend"]>>, EssentialEvent |-> FALSE, Sets |-> <<"syscalls", "ipc", "ipc_msgq">>],
    [Key |-> "MqTimedreceiveEventID", ID |-> "MqTimedreceiveEventID", ID32Bit |-> "sys32mq_timedreceive", Name |-> "mq_timedreceive", Probes |-> <<[event |-> "mq_timedreceive", attach |-> sysCall, fn |-> "mq_timedreceive"]>>, EssentialEvent |-> FALSE, Sets |-> <<"syscalls", "ipc", "ipc_msgq">>],
    [Key |-> "MqNotifyEventID", ID |-> "MqNotifyEventID", ID32Bit |-> "sys32mq_notify", Name |-> "mq_notify", Probes |-> <<[event |-> "mq_notify", attach |-> sysCall, fn |-> "mq_notify"]>>, EssentialEvent |-> FALSE, Sets |-> <<"syscalls", "ipc", "ipc_msgq">>],
    [Key |-> "MqGetsetattrEventID", ID |-> "MqGetsetattrEventID", ID32Bit |-> "sys32mq_getsetattr", Name |-> "mq_getsetattr", Probes |-> <<[event |-> "mq_getsetattr", attach |-> sysCall, fn |-> "mq_getsetattr"]>>, EssentialEvent |-> FALSE, Sets |-> <<"syscalls", "ipc", "ipc_msgq">>],
    [Key |-> "KexecLoadEventID", ID |-> "KexecLoadEventID", ID32Bit |-> "sys32kexec_load", Name |-> "kexec_load", Probes |-> <<[event |-> "kexec_load", attach |-> sysCall, fn |-> "kexec_load"]>>, EssentialEvent |-> FALSE, Sets |-> <<"syscalls", "system">>],
    [Key |-> "WaitidEventID", ID |-> "WaitidEventID", ID32Bit |-> "sys32waitid", Name |-> "waitid", Probes |-> <<[event |-> "waitid", attach |-> sysCall, fn |-> "waitid"]>>, EssentialEvent |-> FALSE, Sets |-> <<"syscalls", "proc", "proc_life">>],
    [Key |-> "AddKeyEventID", ID |-> "AddKeyEventID", ID32Bit |-> "sys32add_key", Name |-> "add_key", Probes |-> <<[event |-> "add_key", attach |-> sysCall, fn |-> "add_key"]>>, EssentialEvent |-> FALSE, Sets |-> <<"syscalls", "system", "system_keys">>],
    [Key |-> "RequestKeyEventID", ID |-> "RequestKeyEventID", ID32Bit |-> "sys32request_key", Name |-> "request_key", Probes |-> <<[event |-> "request_key", attach |-> sysCall, fn |-> "request_key"]>>, EssentialEvent |-> FALSE, Sets |-> <<"syscalls", "system", "system_keys">>],
    [Key |-> "KeyctlEventID", ID |-> "KeyctlEventID", ID32Bit |-> "sys32keyctl", Name |-> "keyctl", Probes |-> <<[event |-> "keyctl", attach |-> sysCall, fn |-> "keyctl"]>>, EssentialEvent |-> FALSE, Sets |-> <<"syscalls", "system", "system_keys">>],
    [Key |-> "IoprioSetEventID", ID |-> "IoprioSetEventID", ID32Bit |-> "sys32ioprio_set", Name |-> "ioprio_set", Probes |-> <<[event |-> "ioprio_set", attach |-> sysCall, fn |-> "ioprio_set"]>>, EssentialEvent |-> FALSE, Sets |-> <<"syscalls", "proc", "proc_sched">>],
    [Key |-> "IoprioGetEventID", ID |-> "IoprioGetEventID", ID32Bit |-> "sys32ioprio_get", Name |-> "ioprio_get", Probes |-> <<[event |-> "ioprio_get", attach |-> sysCall, fn |-> "ioprio_get"]>>, EssentialEvent |-> FALSE, Sets |-> <<"syscalls", "proc", "proc_sched">>],
    [Key |-> "InotifyInitEventID", ID |-> "InotifyInitEventID", ID32Bit |-> "sys32inotify_init", Name |-> "inotify_init", Probes |-> <<[event |-> "inotify_init", attach |-> sysCall, fn |-> "inotify_init"]>>, EssentialEvent |-> FALSE, Sets |-> <<"syscalls", "fs", "fs_monitor">>],
    [Key |-> "InotifyAddWatchEventID", ID |-> "InotifyAddWatchEventID", ID32Bit |-> "sys32inotify_add_watch", Name |-> "inotify_add_watch", Probes |-> <<[event |-> "inotify_add_watch", attach |-> sysCall, fn |-> "inotify_add_watch"]>>, EssentialEvent |-> FALSE, Sets |-> <<"syscalls", "fs", "fs_monitor">>],
    [Key |-> "InotifyRmWatchEventID", ID |-> "InotifyRmWatchEventID", ID32Bit |-> "sys32inotify_rm_watch", Name |-> "inotify_rm_watch", Probes |-> <<[event |-> "inotify_rm_watch", attach |-> sysCall, fn |-> "inotify_rm_watch"]>>, EssentialEvent |-> FALSE, Sets |-> <<"syscalls", "fs", "fs_monitor">>],
    [Key |-> "MigratePagesEventID", ID |-> "MigratePagesEventID", ID32Bit |-> "sys32migrate_pages", Name |-> "migrate_pages", Probes |-> <<[event |-> "migrate_pages", attach |-> sysCall, fn |-> "migrate_pages"]>>, EssentialEvent |-> FALSE, Sets |-> <<"syscalls", "system", "system_numa">>],
    [Key |-> "OpenatEventID", ID |-> "OpenatEventID", ID32Bit |-> "sys32openat", Name |-> "openat", Probes |-> <<[event |-> "openat", attach |-> sysCall, fn |-> "openat"]>>, EssentialEvent |-> FALSE, Sets |-> <<"default", "syscalls", "fs", "fs_file_ops">>],
    [Key |-> "MkdiratEventID", ID |-> "MkdiratEventID", ID32Bit |-> "sys32mkdirat", Name |-> "mkdirat", Probes |-> <<[event |-> "mkdirat", attach |-> sysCall, fn |-> "mkdirat"]>>, EssentialEvent |-> FALSE, Sets |-> <<"syscalls", "fs", "fs_dir_ops">>],
    [Key |-> "MknodatEventID", ID |-> "MknodatEventID", ID32Bit |-> "sys32mknodat", Name |-> "mknodat", Probes |-> <<[event |-> "mknodat", attach |-> sysCall, fn |-> "mknodat"]>>, EssentialEvent |-> FALSE, Sets |-> <<"default", "syscalls", "fs", "fs_file_ops">>],
    [Key |-> "FchownatEventID", ID |-> "FchownatEventID", ID32Bit |-> "sys32fchownat", Name |-> "fchownat", Probes |-> <<[event |-> "fchownat", attach |-> sysCall, fn |-> "fchownat"]>>, EssentialEvent |-> FALSE, Sets |-> <<"default", "syscalls", "fs", "fs_file_attr">>],
    [Key |-> "FutimesatEventID", ID |-> "FutimesatEventID", ID32Bit |-> "sys32futimesat", Name |-> "futimesat", Probes |-> <<[event |-> "futimesat", attach |-> sysCall, fn |-> "futimesat"]>>, EssentialEvent |-> FALSE, Sets |-> <<"syscalls", "fs", "fs_file_attr">>],
    [Key |-> "NewfstatatEventID", ID |-> "NewfstatatEventID", ID32Bit |-> "sys32fstatat64", Name |-> "newfstatat", Probes |-> <<[event |-> "newfstatat", attach |-> sysCall, fn |-> "newfstatat"]>>, EssentialEvent |-> FALSE, Sets |-> <<"syscalls", "fs", "fs_file_attr">>],
    [Key |-> "UnlinkatEventID", ID |-> "UnlinkatEventID", ID32Bit |-> "sys32unlinkat", Name |-> "unlinkat", Probes |-> <<[event |-> "unlinkat", attach |-> sysCall, fn |-> "unlinkat"]>>, EssentialEvent |-> FALSE, Sets |-> <<"default", "syscalls", "fs", "fs_link_ops">>],
    [Key |-> "RenameatEventID", ID |-> "RenameatEventID", ID32Bit |-> "sys32renameat", Name |-> "renameat", Probes |-> <<[event |-> "renameat", attach |-> sysCall, fn |-> "renameat"]>>, EssentialEvent |-> FALSE, Sets |-> <<"syscalls", "fs", "fs_file_ops">>],
    [Key |-> "LinkatEventID", ID |-> "LinkatEventID", ID32Bit |-> "sys32linkat", Name |-> "linkat", Probes |-> <<[event |-> "linkat", attach |-> sysCall, fn |-> "linkat"]>>, EssentialEvent |-> FALSE, Sets |-> <<"syscalls", "fs", "fs_link_ops">>],
    [Key |-> "SymlinkatEventID", ID |-> "SymlinkatEventID", ID32Bit |-> "sys32symlinkat", Name |-> "symlinkat", Probes |-> <<[event |-> "symlinkat", attach |-> sysCall, fn |-> "symlinkat"]>>, EssentialEvent |-> FALSE, Sets |-> <<"default", "syscalls", "fs", "fs_link_ops">>],
    [Key |-> "ReadlinkatEventID", ID |-> "ReadlinkatEventID", ID32Bit |-> "sys32readlinkat", Name |-> "readlinkat", Probes |-> <<[event |-> "readlinkat", attach |-> sysCall, fn |-> "readlinkat"]>>, EssentialEvent |-> FALSE, Sets |-> <<"syscalls", "fs", "fs_link_ops">>],
    [Key |-> "FchmodatEventID", ID |-> "FchmodatEventID", ID32Bit |-> "sys32fchmodat", Name |-> "fchmodat", Probes |-> <<[event |-> "fchmodat", attach |-> sysCall, fn |-> "fchmodat"]>>, EssentialEvent |-> FALSE, Sets |-> <<"default", "syscalls", "fs", "fs_file_attr">>],
    [Key |-> "FaccessatEventID", ID |-> "FaccessatEventID", ID32Bit |-> "sys32faccessat", Name |-> "faccessat", Probes |-> <<[event |-> "faccessat", attach |-> sysCall, fn |-> "faccessat"]>>, EssentialEvent |-> FALSE, Sets |-> <<"default", "syscalls", "fs", "fs_file_attr">>],
    [Key |-> "Pselect6EventID", ID |-> "Pselect6EventID", ID32Bit |-> "sys32pselect6", Name |-> "pselect6", Probes |-> <<[event |-> "pselect6", attach |-> sysCall, fn |-> "pselect6"]>>, EssentialEvent |-> FALSE, Sets |-> <<"syscalls", "fs", "fs_mux_io">>],
    [Key |-> "PpollEventID", ID |-> "PpollEventID", ID32Bit |-> "sys32ppoll", Name |-> "ppoll", Probes |-> <<[event |-> "ppoll", attach |-> sysCall, fn |-> "ppoll"]>>, EssentialEvent |-> FALSE, Sets |-> <<"syscalls", "fs", "fs_mux_io">>],
    [Key |-> "UnshareEventID", ID |-> "UnshareEventID", ID32Bit |-> "sys32unshare", Name |-> "unshare", Probes |-> <<[event |-> "unshare", attach |-> sysCall, fn |-> "unshare"]>>, EssentialEvent |-> FALSE, Sets |-> <<"syscalls", "proc">>],
    [Key |-> "SetRobustListEventID", ID |-> "SetRobustListEventID", ID32Bit |-> "sys32set_robust_list", Name |-> "set_robust_list", Probes |-> <<[event |-> "set_robust_list", attach |-> sysCall, fn |-> "set_robust_list"]>>, EssentialEvent |-> FALSE, Sets |-> <<"syscalls", "ipc", "ipc_futex">>],
    [Key |-> "GetRobustListEventID", ID |-> "GetRobustListEventID", ID32Bit |-> "sys32get_robust_list", Name |-> "get_robust_list", Probes |-> <<[event |-> "get_robust_list", attach |-> sysCall, fn |-> "get_robust_list"]>>, EssentialEvent |-> FALSE, Sets |-> <<"syscalls", "ipc", "ipc_futex">>],
    [Key |-> "SpliceEventID", ID |-> "SpliceEventID", ID32Bit |-> "sys32splice", Name |-> "splice", Probes |-> <<[event |-> "splice", attach |-> sysCall, fn |-> "splice"]>>, EssentialEvent |-> FALSE, Sets |-> <<"syscalls", "ipc", "ipc_pipe">>],
    [Key |-> "TeeEventID", ID |-> "TeeEventID", ID32Bit |-> "sys32tee", Name |-> "tee", Probes |-> <<[event |-> "tee", attach |-> sysCall, fn |-> "tee"]>>, EssentialEvent |-> FALSE, Sets |-> <<"syscalls", "ipc", "ipc_pipe">>],
    [Key |-> "SyncFileRangeEventID", ID |-> "SyncFileRangeEventID", ID32Bit |-> "sys32sync_file_range", Name |-> "sync_file_range", Probes |-> <<[event |-> "sync_file_range", attach |-> sysCall, fn |-> "sync_file_range"]>>, EssentialEvent |-> FALSE, Sets |-> <<"syscalls", "fs", "fs_sync">>],
    [Key |-> "VmspliceEventID", ID |-> "VmspliceEventID", ID32Bit |-> "sys32vmsplice", Name |-> "vmsplice", Probes |-> <<[event |-> "vmsplice", attach |-> sysCall, fn |-> "vmsplice"]>>, EssentialEvent |-> FALSE, Sets |-> <<"syscalls", "ipc", "ipc_pipe">>],
    [Key |-> "MovePagesEventID", ID |-> "MovePagesEventID", ID32Bit |-> "sys32move_pages", Name |-> "move_pages", Probes |-> <<[event |-> "move_pages", attach |-> sysCall, fn |-> "move_pages"]>>, EssentialEvent |-> FALSE, Sets |-> <<"syscalls", "system", "system_numa">>],
    [Key |-> "UtimensatEventID", ID |-> "UtimensatEventID", ID32Bit |-> "sys32utimensat", Name |-> "utimensat", Probes |-> <<[event |-> "utimensat", attach |-> sysCall, fn |-> "utimensat"]>>, EssentialEvent |-> FALSE, Sets |-> <<"syscalls", "fs", "fs_file_attr">>],
    [Key |-> "EpollPwaitEventID", ID |-> "EpollPwaitEventID", ID32Bit |-> "sys32epoll_pwait", Name |-> "epoll_pwait", Probes |-> <<[event |-> "epoll_pwait", attach |-> sysCall, fn |-> "epoll_pwait"]>>, EssentialEvent |-> FALSE, Sets |-> <<"syscalls", "fs", "fs_mux_io">>],
    [Key |-> "SignalfdEventID", ID |-> "SignalfdEventID", ID32Bit |-> "sys32signalfd", Name |-> "signalfd", Probes |-> <<[event |-> "signalfd", attach |-> sysCall, fn |-> "signalfd"]>>, EssentialEvent |-> FALSE, Sets |-> <<"syscalls", "signals">>],
    [Key |-> "TimerfdCreateEventID", ID |-> "TimerfdCreateEventID", ID32Bit |-> "sys32timerfd_create", Name |-> "timerfd_create", Probes |-> <<[event |-> "timerfd_create", attach |-> sysCall, fn |-> "timerfd_create"]>>, EssentialEvent |-> FALSE, Sets |-> <<"syscalls", "time", "time_timer">>],
    [Key |-> "EventfdEventID", ID |-> "EventfdEventID", ID32Bit |-> "sys32eventfd", Name |-> "eventfd", Probes |-> <<[event |-> "eventfd", attach |-> sysCall, fn |-> "eventfd"]>>, EssentialEvent |-> FALSE, Sets |-> <<"syscalls", "signals">>],
    [Key |-> "FallocateEventID", ID |-> "FallocateEventID", ID32Bit |-> "sys32fallocate", Name |-> "fallocate", Probes |-> <<[event |-> "fallocate", attach |-> sysCall, fn |-> "fallocate"]>>, EssentialEvent |-> FALSE, Sets |-> <<"syscalls", "fs", "fs_file_ops">>],
    [Key |-> "TimerfdSettimeEventID", ID |-> "TimerfdSettimeEventID", ID32Bit |-> "sys32timerfd_settime", Name |-> "timerfd_settime", Probes |-> <<[event |-> "timerfd_settime", attach |-> sysCall, fn |-> "timerfd_settime"]>>, EssentialEvent |-> FALSE, Sets |-> <<"syscalls", "time", "time_timer">>],
    [Key |-> "TimerfdGettimeEventID", ID |-> "TimerfdGettimeEventID", ID32Bit |-> "sys32timerfd_gettime", Name |-> "timerfd_gettime", Probes |-> <<[event |-> "timerfd_gettime", attach |-> sysCall, fn |-> "timerfd_gettime"]>>, EssentialEvent |-> FALSE, Sets |-> <<"syscalls", "time", "time_timer">>],
    [Key |-> "Accept4EventID", ID |-> "Accept4EventID", ID32Bit |-> "sys32accept4", Name |-> "accept4", Probes |-> <<[event |-> "accept4", attach |-> sysCall, fn |-> "accept4"]>>, EssentialEvent |-> FALSE, Sets |-> <<"default", "syscalls", "net", "net_sock">>],
    [Key |-> "Signalfd4EventID", ID |-> "Signalfd4EventID", ID32Bit |-> "sys32signalfd4", Name |-> "signalfd4", Probes |-> <<[event |-> "signalfd4", attach |-> sysCall, fn |-> "signalfd4"]>>, EssentialEvent |-> FALSE, Sets |-> <<"syscalls", "signals">>],
    [Key |-> "Eventfd2EventID", ID |-> "Eventfd2EventID", ID32Bit |-> "sys32eventfd2", Name |-> "eventfd2", Probes |-> <<[event |-> "eventfd2", attach |-> sysCall, fn |-> "eventfd2"]>>, EssentialEvent |-> FALSE, Sets |-> <<"syscalls", "signals">>],
    [Key |-> "EpollCreate1EventID", ID |-> "EpollCreate1EventID", ID32Bit |-> "sys32epoll_create1", Name |-> "epoll_create1", Probes |-> <<[event |-> "epoll_create1", attach |-> sysCall, fn |-> "epoll_create1"]>>, EssentialEvent |-> FALSE, Sets |-> <<"syscalls", "fs", "fs_mux_io">>],
    [Key |-> "Dup3EventID", ID |-> "Dup3EventID", ID32Bit |-> "sys32dup3", Name |-> "dup3", Probes |-> <<[event |-> "dup3", attach |-> sysCall, fn |-> "dup3"]>>, EssentialEvent |-> FALSE, Sets |-> <<"default", "syscalls", "fs", "fs_fd_ops">>],
    [Key |-> "Pipe2EventID", ID |-> "Pipe2EventID", ID32Bit |-> "sys32pipe2", Name |-> "pipe2", Probes |-> <<[event |-> "pipe2", attach |-> sysCall, fn |-> "pipe2"]>>, EssentialEvent |-> FALSE, Sets |-> <<"syscalls", "ipc", "ipc_pipe">>],
    [Key |-> "InotifyInit1EventID", ID |-> "InotifyInit1EventID", ID32Bit |-> "sys32inotify_init1", Name |-> "inotify_init1", Probes |-> <<[event |-> "inotify_init1", attach |-> sysCall, fn |-> "inotify_init1"]>>, EssentialEvent |-> FALSE, Sets |-> <<"syscalls", "fs", "fs_monitor">>],
    [Key |-> "PreadvEventID", ID |-> "PreadvEventID", ID32Bit |-> "sys32preadv", Name |-> "preadv", Probes |-> <<[event |-> "preadv", attach |-> sysCall, fn |-> "preadv"]>>, EssentialEvent |-> FALSE, Sets |-> <<"syscalls", "fs", "fs_read_write">>],
    [Key |-> "PwritevEventID", ID |-> "PwritevEventID", ID32Bit |-> "sys32pwritev", Name |-> "pwritev", Probes |-> <<[event |-> "pwritev", attach |-> sysCall, fn |-> "pwritev"]>>, EssentialEvent |-> FALSE, Sets |-> <<"syscalls", "fs", "fs_read_write">>],
    [Key |-> "RtTgsigqueueinfoEventID", ID |-> "RtTgsigqueueinfoEventID", ID32Bit |-> "sys32rt_tgsigqueueinfo", Name |-> "rt_tgsigqueueinfo", Probes |-> <<[event |-> "rt_tgsigqueueinfo", attach |-> sysCall, fn |-> "rt_tgsigqueueinfo"]>>, EssentialEvent |-> FALSE, Sets |-> <<"syscalls", "signals">>],
    [Key |-> "PerfEventOpenEventID", ID |-> "PerfEventOpenEventID", ID32Bit |-> "sys32perf_event_open", Name |-> "perf_event_open", Probes |-> <<[event |-> "perf_event_open", attach |-> sysCall, fn |-> "perf_event_open"]>>, EssentialEvent |-> FALSE, Sets |-> <<"syscalls", "system">>],
    [Key |-> "RecvmmsgEventID", ID |-> "RecvmmsgEventID", ID32Bit |-> "sys32recvmmsg", Name |-> "recvmmsg", Probes |-> <<[event |-> "recvmmsg", attach |-> sysCall, fn |-> "recvmmsg"]>>, EssentialEvent |-> FALSE, Sets |-> <<"syscalls", "net", "net_snd_rcv">>],
    [Key |-> "FanotifyInitEventID", ID |-> "FanotifyInitEventID", ID32Bit |-> "sys32fanotify_init", Name |-> "fanotify_init", Probes |-> <<[event |-> "fanotify_init", attach |-> sysCall, fn |-> "fanotify_init"]>>, EssentialEvent |-> FALSE, Sets |-> <<"syscalls", "fs", "fs_monitor">>],
    [Key |-> "FanotifyMarkEventID", ID |-> "FanotifyMarkEventID", ID32Bit |-> "sys32fanotify_mark", Name |-> "fanotify_mark", Probes |-> <<[event |-> "fanotify_mark", attach |-> sysCall, fn |-> "fanotify_mark"]>>, EssentialEvent |-> FALSE, Sets |-> <<"syscalls", "fs", "fs_monitor">>],
    [Key |-> "Prlimit64EventID", ID |-> "Prlimit64EventID", ID32Bit |-> "sys32prlimit64", Name |-> "prlimit64", Probes |-> <<[event |-> "prlimit64", attach |-> sysCall, fn |-> "prlimit64"]>>, EssentialEvent |-> FALSE, Sets |-> <<"syscalls", "proc">>],
    [Key |-> "NameToHandleAtEventID", ID |-> "NameToHandleAtEventID", ID32Bit |-> "sys32name_to_handle_at", Name |-> "name_to_handle_at", Probes |-> <<[event |-> "name_to_handle_at", attach |-> sysCall, fn |-> "name_to_handle_at"]>>, EssentialEvent |-> FALSE, Sets |-> <<"syscalls", "fs", "fs_file_ops">>],
    [Key |-> "OpenByHandleAtEventID", ID |-> "OpenByHandleAtEventID", ID32Bit |-> "sys32open_by_handle_at", Name |-> "open_by_handle_at", Probes |-> <<[event |-> "open_by_handle_at", attach |-> sysCall, fn |-> "open_by_handle_at"]>>, EssentialEvent |-> FALSE, Sets |-> <<"syscalls", "fs", "fs_file_ops">>],
    [Key |-> "ClockAdjtimeEventID", ID |-> "ClockAdjtimeEventID", ID32Bit |-> "sys32clock_adjtime", Name |-> "clock_adjtime", Probes |-> <<[event |-> "clock_adjtime", attach |-> sysCall, fn |-> "clock_adjtime"]>>, EssentialEvent |-> FALSE, Sets |-> <<"syscalls", "time", "time_clock">>],
    [Key |-> "SyncfsEventID", ID |-> "SyncfsEventID", ID32Bit |-> "sys32syncfs", Name |-> "syncfs", Probes |-> <<[event |-> "syncfs", attach |-> sysCall, fn |-> "syncfs"]>>, EssentialEvent |-> FALSE, Sets |-> <<"syscalls", "fs", "fs_sync">>],
    [Key |-> "SendmmsgEventID", ID |-> "SendmmsgEventID", ID32Bit |-> "sys32sendmmsg", Name |-> "sendmmsg", Probes |-> <<[event |-> "sendmmsg", attach |-> sysCall, fn |-> "sendmmsg"]>>, EssentialEvent |-> FALSE, Sets |-> <<"syscalls", "net", "net_snd_rcv">>],
    [Key |-> "SetnsEventID", ID |-> "SetnsEventID", ID32Bit |-> "sys32setns", Name |-> "setns", Probes |-> <<[event |-> "setns", attach |-> sysCall, fn |-> "setns"]>>, EssentialEvent |-> FALSE, Sets |-> <<"syscalls", "proc">>],
    [Key |-> "GetcpuEventID", ID |-> "GetcpuEventID", ID32Bit |-> "sys32getcpu", Name |-> "getcpu", Probes |-> <<[event |-> "getcpu", attach |-> sysCall, fn |-> "getcpu"]>>, EssentialEvent |-> FALSE, Sets |-> <<"syscalls", "system", "system_numa">>],
    [Key |-> "ProcessVmReadvEventID", ID |-> "ProcessVmReadvEventID", ID32Bit |-> "sys32process_vm_readv", Name |-> "process_vm_readv", Probes |-> <<[event |-> "process_vm_readv", attach |-> sysCall, fn |-> "process_vm_readv"]>>, EssentialEvent |-> FALSE, Sets |-> <<"default", "syscalls", "proc">>],
    [Key |-> "ProcessVmWritevEventID", ID |-> "ProcessVmWritevEventID", ID32Bit |-> "sys32process_vm_writev", Name |-> "process_vm_writev", Probes |-> <<[event |-> "process_vm_writev", attach |-> sysCall, fn |-> "process_vm_writev"]>>, EssentialEvent |-> FALSE, Sets |-> <<"default", "syscalls", "proc">>],
    [Key |-> "KcmpEventID", ID |-> "KcmpEventID", ID32Bit |-> "sys32kcmp", Name |-> "kcmp", Probes |-> <<[event |-> "kcmp", attach |-> sysCall, fn |-> "kcmp"]>>, EssentialEvent |-> FALSE, Sets |-> <<"syscalls", "proc">>],
    [Key |-> "FinitModuleEventID", ID |-> "FinitModuleEventID", ID32Bit |-> "sys32finit_module", Name |-> "finit_module", Probes |-> <<[event |-> "finit_module", attach |-> sysCall, fn |-> "finit_module"]>>, EssentialEvent |-> FALSE, Sets |-> <<"default", "syscalls", "system", "system_module">>],
    [Key |-> "SchedSetattrEventID", ID |-> "SchedSetattrEventID", ID32Bit |-> "sys32sched_setattr", Name |-> "sched_setattr", Probes |-> <<[event |-> "sched_setattr", attach |-> sysCall, fn |-> "sched_setattr"]>>, EssentialEvent |-> FALSE, Sets |-> <<"syscalls", "proc", "proc_sched">>],
    [Key |-> "SchedGetattrEventID", ID |-> "SchedGetattrEventID", ID32Bit |-> "sys32sched_getattr", Name |-> "sched_getattr", Probes |-> <<[event |-> "sched_getattr", attach |-> sysCall, fn |-> "sched_getattr"]>>, EssentialEvent |-> FALSE, Sets |-> <<"syscalls", "proc", "proc_sched">>],
    [Key |-> "Renameat2EventID", ID |-> "Renameat2EventID", ID32Bit |-> "sys32renameat2", Name |-> "renameat2", Probes |-> <<[event |-> "renameat2", attach |-> sysCall, fn |-> "renameat2"]>>, EssentialEvent |-> FALSE, Sets |-> <<"syscalls", "fs", "fs_file_ops">>],
    [Key |-> "SeccompEventID", ID |-> "SeccompEventID", ID32Bit |-> "sys32seccomp", Name |-> "seccomp", Probes |-> <<[event |-> "seccomp", attach |-> sysCall, fn |-> "seccomp"]>>, EssentialEvent |-> FALSE, Sets |-> <<"syscalls", "proc">>],
    [Key |-> "GetrandomEventID", ID |-> "GetrandomEventID", ID32Bit |-> "sys32getrandom", Name |-> "getrandom", Probes |-> <<[event |-> "getrandom", attach |-> sysCall, fn |-> "getrandom"]>>, EssentialEvent |-> FALSE, Sets |-> <<"syscalls", "fs">>],
    [Key |-> "MemfdCreateEventID", ID |-> "MemfdCreateEventID", ID32Bit |-> "sys32memfd_create", Name |-> "memfd_create", Probes |-> <<[event |-> "memfd_create", attach |-> sysCall, fn |-> "memfd_create"]>>, EssentialEvent |-> FALSE, Sets |-> <<"default", "syscalls", "fs", "fs_file_ops">>],
    [Key |-> "KexecFileLoadEventID", ID |-> "KexecFileLoadEventID", ID32Bit |-> "sys32undefined", Name |-> "kexec_file_load", Probes |-> <<[event |-> "kexec_file_load", attach |-> sysCall, fn |-> "kexec_file_load"]>>, EssentialEvent |-> FALSE, Sets |-> <<"syscalls", "system">>],
    [Key |-> "BpfEventID", ID |-> "BpfEventID", ID32Bit |-> "sys32bpf", Name |-> "bpf", Probes |-> <<[event |-> "bpf", attach |-> sysCall, fn |-> "bpf"]>>, EssentialEvent |-> FALSE, Sets |-> <<"default", "syscalls", "system">>],
    [Key |-> "ExecveatEventID", ID |-> "ExecveatEventID", ID32Bit |-> "sys32execveat", Name |-> "execveat", Probes |-> <<[event |-> "execveat", attach |-> sysCall, fn |-> "execveat"]>>, EssentialEvent |-> FALSE, Sets |-> <<"default", "syscalls", "proc", "proc_life">>],
    [Key |-> "UserfaultfdEventID", ID |-> "UserfaultfdEventID", ID32Bit |-> "sys32userfaultfd", Name |-> "userfaultfd", Probes |-> <<[event |-> "userfaultfd", attach |-> sysCall, fn |-> "userfaultfd"]>>, EssentialEvent |-> FALSE, Sets |-> <<"syscalls", "system">>],
    [Key |-> "MembarrierEventID", ID |-> "MembarrierEventID", ID32Bit |-> "sys32membarrier", Name |-> "membarrier", Probes |-> <<[event |-> "membarrier", attach |-> sysCall, fn |-> "membarrier"]>>, EssentialEvent |-> FALSE, Sets |-> <<"syscalls", "proc", "proc_mem">>],
    [Key |-> "Mlock2EventID", ID |-> "Mlock2EventID", ID32Bit |-> "sys32mlock2", Name |-> "mlock2", Probes |-> <<[event |-> "mlock2", attach |-> sysCall, fn |-> "mlock2"]>>, EssentialEvent |-> FALSE, Sets |-> <<"syscalls", "proc", "proc_mem">>],
    [Key |-> "CopyFileRangeEventID", ID |-> "CopyFileRangeEventID", ID32Bit |-> "sys32copy_file_range", Name |-> "copy_file_range", Probes |-> <<[event |-> "copy_file_range", attach |-> sysCall, fn |-> "copy_file_range"]>>, EssentialEvent |-> FALSE, Sets |-> <<"syscalls", "fs", "fs_read_write">>],
    [Key |-> "Preadv2EventID", ID |-> "Preadv2EventID", ID32Bit |-> "sys32preadv2", Name |-> "preadv2", Probes |-> <<[event |-> "preadv2", attach |-> sysCall, fn |-> "preadv2"]>>, EssentialEvent |-> FALSE, Sets |-> <<"syscalls", "fs", "fs_read_write">>],
    [Key |-> "Pwritev2EventID", ID |-> "Pwritev2EventID", ID32Bit |-> "sys32pwritev2", Name |-> "pwritev2", Probes |-> <<[event |-> "pwritev2", attach |-> sysCall, fn |-> "pwritev2"]>>, EssentialEvent |-> FALSE, Sets |-> <<"syscalls", "fs", "fs_read_write">>],
    [Key |-> "PkeyMprotectEventID", ID |-> "PkeyMprotectEventID", ID32Bit |-> "sys32pkey_mprotect", Name |-> "pkey_mprotect", Probes |-> <<[event |-> "pkey_mprotect", attach |-> sysCall, fn |-> "pkey_mprotect"]>>, EssentialEvent |-> FALSE, Sets |-> <<"default", "syscalls", "proc", "proc_mem">>],
    [Key |-> "PkeyAllocEventID", ID |-> "PkeyAllocEventID", ID32Bit |-> "sys32pkey_alloc", Name |-> "pkey_alloc", Probes |-> <<[event |-> "pkey_alloc", attach |-> sysCall, fn |-> "pkey_alloc"]>>, EssentialEvent |-> FALSE, Sets |-> <<"syscalls", "proc", "proc_mem">>],
    [Key |-> "PkeyFreeEventID", ID |-> "PkeyFreeEventID", ID32Bit |-> "sys32pkey_free", Name |-> "pkey_free", Probes |-> <<[event |-> "pkey_free", attach |-> sysCall, fn |-> "pkey_free"]>>, EssentialEvent |-> FALSE, Sets |-> <<"syscalls", "proc", "proc_mem">>],
    [Key |-> "StatxEventID", ID |-> "StatxEventID", ID32Bit |-> "sys32statx", Name |-> "statx", Probes |-> <<[event |-> "statx", attach |-> sysCall, fn |-> "statx"]>>, EssentialEvent |-> FALSE, Sets |-> <<"syscalls", "fs", "fs_file_attr">>],
    [Key |-> "IoPgeteventsEventID", ID |-> "IoPgeteventsEventID", ID32Bit |-> "sys32io_pgetevents", Name |-> "io_pgetevents", Probes |-> <<[event |-> "io_pgetevents", attach |-> sysCall, fn |-> "io_pgetevents"]>>, EssentialEvent |-> FALSE, Sets |-> <<"syscalls", "fs", "fs_async_io">>],
    [Key |-> "RseqEventID", ID |-> "RseqEventID", ID32Bit |-> "sys32rseq", Name |-> "rseq", Probes |-> <<[event |-> "rseq", attach |-> sysCall, fn |-> "rseq"]>>, EssentialEvent |-> FALSE, Sets |-> <<"syscalls">>],
    [Key |-> "PidfdSendSignalEventID", ID |-> "PidfdSendSignalEventID", ID32Bit |-> "sys32pidfd_send_signal", Name |-> "pidfd_send_signal", Probes |-> <<[event |-> "pidfd_send_signal", attach |-> sysCall, fn |-> "pidfd_send_signal"]>>, EssentialEvent |-> FALSE, Sets |-> <<"syscalls", "signals">>],
    [Key |-> "IoUringSetupEventID", ID |-> "IoUringSetupEventID", ID32Bit |-> "sys32io_uring_setup", Name |-> "io_uring_setup", Probes |-> <<[event |-> "io_uring_setup", attach |-> sysCall, fn |-> "io_uring_setup"]>>, EssentialEvent |-> FALSE, Sets |-> <<"syscalls">>],
    [Key |-> "IoUringEnterEventID", ID |-> "IoUringEnterEventID", ID32Bit |-> "sys32io_uring_enter", Name |-> "io_uring_enter", Probes |-> <<[event |-> "io_uring_enter", attach |-> sysCall, fn |-> "io_uring_enter"]>>, EssentialEvent |-> FALSE, Sets |-> <<"syscalls">>],
    [Key |-> "IoUringRegisterEventID", ID |-> "IoUringRegisterEventID", ID32Bit |-> "sys32io_uring_register", Name |-> "io_uring_register", Probes |-> <<[event |-> "io_uring_register", attach |-> sysCall, fn |-> "io_uring_register"]>>, EssentialEvent |-> FALSE, Sets |-> <<"syscalls">>],
    [Key |-> "OpenTreeEventID", ID |-> "OpenTreeEventID", ID32Bit |-> "sys32open_tree", Name |-> "open_tree", Probes |-> <<[event |-> "open_tree", attach |-> sysCall, fn |-> "open_tree"]>>, EssentialEvent |-> FALSE, Sets |-> <<"syscalls">>],
    [Key |-> "MoveMountEventID", ID |-> "MoveMountEventID", ID32Bit |-> "sys32move_mount", Name |-> "move_mount", Probes |-> <<[event |-> "move_mount", attach |-> sysCall, fn |-> "move_mount"]>>, EssentialEvent |-> FALSE, Sets |-> <<"default", "syscalls", "fs">>],
    [Key |-> "FsopenEventID", ID |-> "FsopenEventID", ID32Bit |-> "sys32fsopen", Name |-> "fsopen", Probes |-> <<[event |-> "fsopen", attach |-> sysCall, fn |-> "fsopen"]>>, EssentialEvent |-> FALSE, Sets |-> <<"syscalls", "fs">>],
    [Key |-> "FsconfigEventID", ID |-> "FsconfigEventID", ID32Bit |-> "sys32fsconfig", Name |-> "fsconfig", Probes |-> <<[event |-> "fsconfig", attach |-> sysCall, fn |-> "fsconfig"]>>, EssentialEvent |-> FALSE, Sets |-> <<"syscalls", "fs">>],
    [Key |-> "FsmountEventID", ID |-> "FsmountEventID", ID32Bit |-> "sys32fsmount", Name |-> "fsmount", Probes |-> <<[event |-> "fsmount", attach |-> sysCall, fn |-> "fsmount"]>>, EssentialEvent |-> FALSE, Sets |-> <<"syscalls", "fs">>],
    [Key |-> "FspickEventID", ID |-> "FspickEventID", ID32Bit |-> "sys32fspick", Name |-> "fspick", Probes |-> <<[event |-> "fspick", attach |-> sysCall, fn |-> "fspick"]>>, EssentialEvent |-> FALSE, Sets |-> <<"syscalls", "fs">>],
    [Key |-> "PidfdOpenEventID", ID |-> "PidfdOpenEventID", ID32Bit |-> "sys32pidfd_open", Name |-> "pidfd_open", Probes |-> <<[event |-> "pidfd_open", attach |-> sysCall, fn |-> "pidfd_open"]>>, EssentialEvent |-> FALSE, Sets |-> <<"syscalls">>],
    [Key |-> "Clone3EventID", ID |-> "Clone3EventID", ID32Bit |-> "sys32clone3", Name |-> "clone3", Probes |-> <<[event |-> "clone3", attach |-> sysCall, fn |-> "clone3"]>>, EssentialEvent |-> FALSE, Sets |-> <<"default", "syscalls", "proc", "proc_life">>],
    [Key |-> "CloseRangeEventID", ID |-> "CloseRangeEventID", ID32Bit |-> "sys32close_range", Name |-> "close_range", Probes |-> <<[event |-> "close_range", attach |-> sysCall, fn |-> "close_range"]>>, EssentialEvent |-> FALSE, Sets |-> <<"default", "syscalls", "fs", "fs_file_ops">>],
    [Key |-> "Openat2EventID", ID |-> "Openat2EventID", ID32Bit |-> "sys32openat2", Name |-> "openat2", Probes |-> <<[event |-> "openat2", attach |-> sysCall, fn |-> "openat2"]>>, EssentialEvent |-> FALSE, Sets |-> <<"default", "syscalls", "fs", "fs_file_ops">>],
    [Key |-> "PidfdGetfdEventID", ID |-> "PidfdGetfdEventID", ID32Bit |-> "sys32pidfd_getfd", Name |-> "pidfd_getfd", Probes |-> <<[event |-> "pidfd_getfd", attach |-> sysCall, fn |-> "pidfd_getfd"]>>, EssentialEvent |-> FALSE, Sets |-> <<"syscalls">>],
    [Key |-> "Faccessat2EventID", ID |-> "Faccessat2EventID", ID32Bit |-> "sys32faccessat2", Name |-> "faccessat2", Probes |-> <<[event |-> "faccessat2", attach |-> sysCall, fn |-> "faccessat2"]>>, EssentialEvent |-> FALSE, Sets |-> <<"default", "syscalls", "fs", "fs_file_attr">>],
    [Key |-> "ProcessMadviseEventID", ID |-> "ProcessMadviseEventID", ID32Bit |-> "sys32process_madvise", Name |-> "process_madvise", Probes |-> <<[event |-> "process_madvise", attach |-> sysCall, fn |-> "process_madvise"]>>, EssentialEvent |-> FALSE, Sets |-> <<"syscalls">>],
    [Key |-> "EpollPwait2EventID", ID |-> "EpollPwait2EventID", ID32Bit |-> "sys32epoll_pwait2", Name |-> "epoll_pwait2", Probes |-> <<[event |-> "epoll_pwait2", attach |-> sysCall, fn |-> "epoll_pwait2"]>>, EssentialEvent |-> FALSE, Sets |-> <<"syscalls", "fs", "fs_mux_io">>],
    [Key |-> "SysEnterEventID", ID |-> "SysEnterEventID", ID32Bit |-> "sys32undefined", Name |-> "sys_enter", Probes |-> <<[event |-> "raw_syscalls:sys_enter", attach |-> rawTracepoint, fn |-> "tracepoint__raw_syscalls__sys_enter"]>>, EssentialEvent |-> TRUE, Sets |-> <<>>],
    [Key |-> "SysExitEventID", ID |-> "SysExitEventID", ID32Bit |-> "sys32undefined", Name |-> "sys_exit", Probes |-> <<[event |-> "raw_syscalls:sys_exit", attach |-> rawTracepoint, fn |-> "tracepoint__raw_syscalls__sys_exit"]>>, EssentialEvent |-> TRUE, Sets |-> <<>>],
    [Key |-> "SchedProcessForkEventID", ID |-> "SchedProcessForkEventID", ID32Bit |-> "sys32undefined", Name |-> "sched_process_fork", Probes |-> <<[event |-> "sched:sched_process_fork", attach |-> rawTracepoint, fn |-> "tracepoint__sched__sched_process_fork"]>>, EssentialEvent |-> TRUE, Sets |-> <<>>],
    [Key |-> "SchedProcessExecEventID", ID |-> "SchedProcessExecEventID", ID32Bit |-> "sys32undefined", Name |-> "sched_process_exec", Probes |-> <<[event |-> "sched:sched_process_exec", attach |-> rawTracepoint, fn |-> "tracepoint__sched__sched_process_exec"]>>, EssentialEvent |-> TRUE, Sets |-> <<"default", "proc">>],
    [Key |-> "SchedProcessExitEventID", ID |-> "SchedProcessExitEventID", ID32Bit |-> "sys32undefined", Name |-> "sched_process_exit", Probes |-> <<[event |-> "sched:sched_process_exit", attach |-> rawTracepoint, fn |-> "tracepoint__sched__sched_process_exit"]>>, EssentialEvent |-> TRUE, Sets |-> <<"default", "proc", "proc_life">>],
    [Key |-> "SchedSwitchEventID", ID |-> "SchedSwitchEventID", ID32Bit |-> "sys32undefined", Name |-> "sched_switch", Probes |-> <<[event |-> "sched:sched_switch", attach |-> rawTracepoint, fn |-> "tracepoint__sched__sched_switch"]>>, EssentialEvent |-> FALSE, Sets |-> <<>>],
    [Key |-> "DoExitEventID", ID |-> "DoExitEventID", ID32Bit |-> "sys32undefined", Name |-> "do_exit", Probes |-> <<[event |-> "do_exit", attach |-> kprobe, fn |-> "trace_do_exit"]>>, EssentialEvent |-> FALSE, Sets |-> <<"proc", "proc_life">>],
    [Key |-> "CapCapableEventID", ID |-> "CapCapableEventID", ID32Bit |-> "sys32undefined", Name |-> "cap_capable", Probes |-> <<[event |-> "cap_capable", attach |-> kprobe, fn |-> "trace_cap_capable"]>>, EssentialEvent |-> FALSE, Sets |-> <<"default">>],
    [Key |-> "VfsWriteEventID", ID |-> "VfsWriteEventID", ID32Bit |-> "sys32undefined", Name |-> "vfs_write", Probes |-> <<[event |-> "vfs_write", attach |-> kprobe, fn |-> "trace_vfs_write"], [event |-> "vfs_write", attach |-> kretprobe, fn |-> "trace_ret_vfs_write"]>>, EssentialEvent |-> FALSE, Sets |-> <<>>],
    [Key |-> "VfsWritevEventID", ID |-> "VfsWritevEventID", ID32Bit |-> "sys32undefined", Name |-> "vfs_writev", Probes |-> <<[event |-> "vfs_writev", attach |-> kprobe, fn |-> "trace_vfs_writev"], [event |-> "vfs_writev", attach |-> kretprobe, fn |-> "trace_ret_vfs_writev"]>>, EssentialEvent |-> FALSE, Sets |-> <<>>],
    [Key |-> "MemProtAlertEventID", ID |-> "MemProtAlertEventID", ID32Bit |-> "sys32undefined", Name |-> "mem_prot_alert", Probes |-> <<[event |-> "security_mmap_addr", attach |-> kprobe, fn |-> "trace_mmap_alert"], [event |-> "security_file_mprotect", attach |-> kprobe, fn |-> "trace_mprotect_alert"]>>, EssentialEvent |-> FALSE, Sets |-> <<>>],
    [Key |-> "CommitCredsEventID", ID |-> "CommitCredsEventID", ID32Bit |-> "sys32undefined", Name |-> "commit_creds", Probes |-> <<[event |-> "commit_creds", attach |-> kprobe, fn |-> "trace_commit_creds"]>>, EssentialEvent |-> FALSE, Sets |-> <<>>],
    [Key |-> "SwitchTaskNSEventID", ID |-> "SwitchTaskNSEventID", ID32Bit |-> "sys32undefined", Name |-> "switch_task_ns", Probes |-> <<[event |-> "switch_task_namespaces", attach |-> kprobe, fn |-> "trace_switch_task_namespaces"]>>, EssentialEvent |-> FALSE, Sets |-> <<>>],
    [Key |-> "MagicWriteEventID", ID |-> "MagicWriteEventID", ID32Bit |-> "sys32undefined", Name |-> "magic_write", Probes |-> <<>>, EssentialEvent |-> FALSE, Sets |-> <<>>],
    [Key |-> "CgroupAttachTaskEventID", ID |-> "CgroupAttachTaskEventID", ID32Bit |-> "sys32undefined", Name |-> "cgroup_attach_task", Probes |-> <<[event |-> "cgroup:cgroup_attach_task", attach |-> rawTracepoint, fn |-> "tracepoint__cgroup__cgroup_attach_task"]>>, EssentialEvent |-> FALSE, Sets |-> <<>>],
    [Key |-> "CgroupMkdirEventID", ID |-> "CgroupMkdirEventID", ID32Bit |-> "sys32undefined", Name |-> "cgroup_mkdir", Probes |-> <<[event |-> "cgroup:cgroup_mkdir", attach |-> rawTracepoint, fn |-> "tracepoint__cgroup__cgroup_mkdir"]>>, EssentialEvent |-> TRUE, Sets |-> <<>>],
    [Key |-> "CgroupRmdirEventID", ID |-> "CgroupRmdirEventID", ID32Bit |-> "sys32undefined", Name |-> "cgroup_rmdir", Probes |-> <<[event |-> "cgroup:cgroup_rmdir", attach |-> rawTracepoint, fn |-> "tracepoint__cgroup__cgroup_rmdir"]>>, EssentialEvent |-> TRUE, Sets |-> <<>>],
    [Key |-> "SecurityBprmCheckEventID", ID |-> "SecurityBprmCheckEventID", ID32Bit |-> "sys32undefined", Name |-> "security_bprm_check", Probes |-> <<[event |-> "security_bprm_check", attach |-> kprobe, fn |-> "trace_security_bprm_check"]>>, EssentialEvent |-> FALSE, Sets |-> <<"default", "lsm_hooks", "proc", "proc_life">>],
    [Key |-> "SecurityFileOpenEventID", ID |-> "SecurityFileOpenEventID", ID32Bit |-> "sys32undefined", Name |-> "security_file_open", Probes |-> <<[event |-> "security_file_open", attach |-> kprobe, fn |-> "trace_security_file_open"]>>, EssentialEvent |-> FALSE, Sets |-> <<"default", "lsm_hooks", "fs", "fs_file_ops">>],
    [Key |-> "SecurityInodeUnlinkEventID", ID |-> "SecurityInodeUnlinkEventID", ID32Bit |-> "sys32undefined", Name |-> "security_inode_unlink", Probes |-> <<[event |-> "security_inode_unlink", attach |-> kprobe, fn |-> "trace_security_inode_unlink"]>>, EssentialEvent |-> FALSE, Sets |-> <<"default", "lsm_hooks", "fs", "fs_file_ops">>],
    [Key |-> "SecuritySocketCreateEventID", ID |-> "SecuritySocketCreateEventID", ID32Bit |-> "sys32undefined", Name |-> "security_socket_create", Probes |-> <<[event |-> "security_socket_create", attach |-> kprobe, fn |-> "trace_security_socket_create"]>>, EssentialEvent |-> FALSE, Sets |-> <<"default", "lsm_hooks", "net", "net_sock">>],
    [Key |-> "SecuritySocketListenEventID", ID |-> "SecuritySocketListenEventID", ID32Bit |-> "sys32undefined", Name |-> "security_socket_listen", Probes |-> <<[event |-> "security_socket_listen", attach |-> kprobe, fn |-> "trace_security_socket_listen"]>>, EssentialEvent |-> FALSE, Sets |-> <<"default", "lsm_hooks", "net", "net_sock">>],
    [Key |-> "SecuritySocketConnectEventID", ID |-> "SecuritySocketConnectEventID", ID32Bit |-> "sys32undefined", Name |-> "security_socket_connect", Probes |-> <<[event |-> "security_socket_connect", attach |-> kprobe, fn |-> "trace_security_socket_connect"]>>, EssentialEvent |-> FALSE, Sets |-> <<"default", "lsm_hooks", "net", "net_sock">>],
    [Key |-> "SecuritySocketAcceptEventID", ID |-> "SecuritySocketAcceptEventID", ID32Bit |-> "sys32undefined", Name |-> "security_socket_accept", Probes |-> <<[event |-> "security_socket_accept", attach |-> kprobe, fn |-> "trace_security_socket_accept"]>>, EssentialEvent |-> FALSE, Sets |-> <<"default", "lsm_hooks", "net", "net_sock">>],
    [Key |-> "SecuritySocketBindEventID", ID |-> "SecuritySocketBindEventID", ID32Bit |-> "sys32undefined", Name |-> "security_socket_bind", Probes |-> <<[event |-> "security_socket_bind", attach |-> kprobe, fn |-> "trace_security_socket_bind"]>>, EssentialEvent |-> FALSE, Sets |-> <<"default", "lsm_hooks", "net", "net_sock">>],
    [Key |-> "SecuritySbMountEventID", ID |-> "SecuritySbMountEventID", ID32Bit |-> "sys32undefined", Name |-> "security_sb_mount", Probes |-> <<[event |-> "security_sb_mount", attach |-> kprobe, fn |-> "trace_security_sb_mount"]>>, EssentialEvent |-> FALSE, Sets |-> <<"default", "lsm_hooks", "fs">>],
    [Key |-> "SecurityBPFEventID", ID |-> "SecurityBPFEventID", ID32Bit |-> "sys32undefined", Name |-> "security_bpf", Probes |-> <<[event |-> "security_bpf", attach |-> kprobe, fn |-> "trace_security_bpf"]>>, EssentialEvent |-> FALSE, Sets |-> <<"lsm_hooks">>],
    [Key |-> "SecurityBPFMapEventID", ID |-> "SecurityBPFMapEventID", ID32Bit |-> "sys32undefined", Name |-> "security_bpf_map", Probes |-> <<[event |-> "security_bpf_map", attach |-> kprobe, fn |-> "trace_security_bpf_map"]>>, EssentialEvent |-> FALSE, Sets |-> <<"lsm_hooks">>],
    [Key |-> "SecurityKernelReadFileEventID", ID |-> "SecurityKernelReadFileEventID", ID32Bit |-> "sys32undefined", Name |-> "security_kernel_read_file", Probes |-> <<[event |-> "security_kernel_read_file", attach |-> kprobe, fn |-> "trace_security_kernel_read_file"]>>, EssentialEvent |-> FALSE, Sets |-> <<"lsm_hooks">>],
    [Key |-> "SecurityPostReadFileEventID", ID |-> "SecurityPostReadFileEventID", ID32Bit |-> "sys32undefined", Name |-> "security_kernel_post_read_file", Probes |-> <<[event |-> "security_kernel_post_read_file", attach |-> kprobe, fn |-> "trace_security_kernel_post_read_file"]>>, EssentialEvent |-> FALSE, Sets |-> <<"lsm_hooks">>],
    [Key |-> "SecurityInodeMknodEventID", ID |-> "SecurityInodeMknodEventID", ID32Bit |-> "sys32undefined", Name |-> "security_inode_mknod", Probes |-> <<[event |-> "security_inode_mknod", attach |-> kprobe, fn |-> "trace_security_inode_mknod"]>>, EssentialEvent |-> FALSE, Sets |-> <<"lsm_hooks">>],
    [Key |-> "InitNamespacesEventID", ID |-> "InitNamespacesEventID", ID32Bit |-> "sys32undefined", Name |-> "init_namespaces", Probes |-> <<>>, EssentialEvent |-> FALSE, Sets |-> <<>>],
    [Key |-> "SocketDupEventID", ID |-> "SocketDupEventID", ID32Bit |-> "sys32undefined", Name |-> "socket_dup", Probes |-> <<>>, EssentialEvent |-> FALSE, Sets |-> <<>>]
  >>

EventsIDToParamsRows ==
  <<
    [Key |-> "ReadEventID", Params |-> <<[Type |-> "int", Name |-> "fd"], [Type |-> "void*", Name |-> "buf"], [Type |-> "size_t", Name |-> "count"]>>],
    [Key |-> "WriteEventID", Params |-> <<[Type |-> "int", Name |-> "fd"], [Type |-> "void*", Name |-> "buf"], [Type |-> "size_t", Name |-> "count"]>>],
    [Key |-> "OpenEventID", Params |-> <<[Type |-> "const char*", Name |-> "pathname"], [Type |-> "int", Name |-> "flags"], [Type |-> "mode_t", Name |-> "mode"]>>],
    [Key |-> "CloseEventID", Params |-> <<[Type |-> "int", Name |-> "fd"]>>],
    [Key |-> "StatEventID", Params |-> <<[Type |-> "const char*", Name |-> "pathname"], [Type |-> "struct stat*", Name |-> "statbuf"]>>],
    [Key |-> "FstatEventID", Params |-> <<[Type |-> "int", Name |-> "fd"], [Type |-> "struct stat*", Name |-> "statbuf"]>>],
    [Key |-> "LstatEventID", Params |-> <<[Type |-> "const char*", Name |-> "pathname"], [Type |-> "struct stat*", Name |-> "statbuf"]>>],
    [Key |-> "PollEventID", Params |-> <<[Type |-> "struct pollfd*", Name |-> "fds"], [Type |-> "unsigned int", Name |-> "nfds"], [Type |-> "int", Name |-> "timeout"]>>],
    [Key |-> "LseekEventID", Params |-> <<[Type |-> "int", Name |-> "fd"], [Type |-> "off_t", Name |-> "offset"], [Type |-> "unsigned int", Name |-> "whence"]>>],
    [Key |-> "MmapEventID", Params |-> <<[Type |-> "void*", Name |-> "addr"], [Type |-> "size_t", Name |-> "length"], [Type |-> "int", Name |-> "prot"], [Type |-> "int", Name |-> "flags"], [Type |-> "int", Name |-> "fd"], [Type |-> "off_t", Name |-> "off"]>>],
    [Key |-> "MprotectEventID", Params |-> <<[Type |-> "void*", Name |-> "addr"], [Type |-> "size_t", Name |-> "len"], [Type |-> "int", Name |-> "prot"]>>],
    [Key |-> "MunmapEventID", Params |-> <<[Type |-> "void*", Name |-> "addr"], [Type |-> "size_t", Name |-> "length"]>>],
    [Key |-> "BrkEventID", Params |-> <<[Type |-> "void*", Name |-> "addr"]>>],
    [Key |-> "RtSigactionEventID", Params |-> <<[Type |-> "int", Name |-> "signum"], [Type |-> "const struct sigaction*", Name |-> "act"], [Type |-> "struct sigaction*", Name |-> "oldact"], [Type |-> "size_t", Name |-> "sigsetsize"]>>],
    [Key |-> "RtSigprocmaskEventID", Params |-> <<[Type |-> "int", Name |-> "how"], [Type |-> "sigset_t*", Name |-> "set"], [Type |-> "sigset_t*", Name |-> "oldset"], [Type |-> "size_t", Name |-> "sigsetsize"]>>],
    [Key |-> "RtSigreturnEventID", Params |-> <<>>],
    [Key |-> "IoctlEventID", Params |-> <<[Type |-> "int", Name |-> "fd"], [Type |-> "unsigned long", Name |-> "request"], [Type |-> "unsigned long", Name |-> "arg"]>>],
    [Key |-> "Pread64EventID", Params |-> <<[Type |-> "int", Name |-> "fd"], [Type |-> "void*", Name |-> "buf"], [Type |-> "size_t", Name |-> "count"], [Type |-> "off_t", Name |-> "offset"]>>],
    [Key |-> "Pwrite64EventID", Params |-> <<[Type |-> "int", Name |-> "fd"], [Type |-> "const void*", Name |-> "buf"], [Type |-> "size_t", Name |-> "count"], [Type |-> "off_t", Name |-> "offset"]>>],
    [Key |-> "ReadvEventID", Params |-> <<[Type |-> "int", Name |-> "fd"], [Type |-> "const struct iovec*", Name |-> "iov"], [Type |-> "int", Name |-> "iovcnt"]>>],
    [Key |-> "WritevEventID", Params |-> <<[Type |-> "int", Name |-> "fd"], [Type |-> "const struct iovec*", Name |-> "iov"], [Type |-> "int", Name |-> "iovcnt"]>>],
    [Key |-> "AccessEventID", Params |-> <<[Type |-> "const char*", Name |-> "pathname"], [Type |-> "int", Name |-> "mode"]>>],
    [Key |-> "PipeEventID", Params |-> <<[Type |-> "int[2]", Name |-> "pipefd"]>>],
    [Key |-> "SelectEventID", Params |-> <<[Type |-> "int", Name |-> "nfds"], [Type |-> "fd_set*", Name |-> "readfds"], [Type |-> "fd_set*", Name |-> "writefds"], [Type |-> "fd_set*", Name |-> "exceptfds"], [Type |-> "struct timeval*", Name |-> "timeout"]>>],
    [Key |-> "SchedYieldEventID", Params |-> <<>>],
    [Key |-> "MremapEventID", Params |-> <<[Type |-> "void*", Name |-> "old_address"], [Type |-> "size_t", Name |-> "old_size"], [Type |-> "size_t", Name |-> "new_size"], [Type |-> "int", Name |-> "flags"], [Type |-> "void*", Name |-> "new_address"]>>],
    [Key |-> "MsyncEventID", Params |-> <<[Type |-> "void*", Name |-> "addr"], [Type |-> "size_t", Name |-> "length"], [Type |-> "int", Name |-> "flags"]>>],
    [Key |-> "MincoreEventID", Params |-> <<[Type |-> "void*", Name |-> "addr"], [Type |-> "size_t", Name |-> "length"], [Type |-> "unsigned char*", Name |-> "vec"]>>],
    [Key |-> "MadviseEventID", Params |-> <<[Type |-> "void*", Name |-> "addr"], [Type |-> "size_t", Name |-> "length"], [Type |-> "int", Name |-> "advice"]>>],
    [Key |-> "ShmgetEventID", Params |-> <<[Type |-> "key_t", Name |-> "key"], [Type |-> "size_t", Name |-> "size"], [Type |-> "int", Name |-> "shmflg"]>>],
    [Key |-> "ShmatEventID", Params |-> <<[Type |-> "int", Name |-> "shmid"], [Type |-> "const void*", Name |-> "shmaddr"], [Type |-> "int", Name |-> "shmflg"]>>],
    [Key |-> "ShmctlEventID", Params |-> <<[Type |-> "int", Name |-> "shmid"], [Type |-> "int", Name |-> "cmd"], [Type |-> "struct shmid_ds*", Name |-> "buf"]>>],
    [Key |-> "DupEventID", Params |-> <<[Type |-> "int", Name |-> "oldfd"]>>],
    [Key |-> "Dup2EventID", Params |-> <<[Type |-> "int", Name |-> "oldfd"], [Type |-> "int", Name |-> "newfd"]>>],
    [Key |-> "PauseEventID", Params |-> <<>>],
    [Key |-> "NanosleepEventID", Params |-> <<[Type |-> "const struct timespec*", Name |-> "req"], [Type |-> "struct timespec*", Name |-> "rem"]>>],
    [Key |-> "GetitimerEventID", Params |-> <<[Type |-> "int", Name |-> "which"], [Type |-> "struct itimerval*", Name |-> "curr_value"]>>],
    [Key |-> "AlarmEventID", Params |-> <<[Type |-> "unsigned int", Name |-> "seconds"]>>],
    [Key |-> "SetitimerEventID", Params |-> <<[Type |-> "int", Name |-> "which"], [Type |-> "struct itimerval*", Name |-> "new_value"], [Type |-> "struct itimerval*", Name |-> "old_value"]>>],
    [Key |-> "GetpidEventID", Params |-> <<>>],
    [Key |-> "SendfileEventID", Params |-> <<[Type |-> "int", Name |-> "out_fd"], [Type |-> "int", Name |-> "in_fd"], [Type |-> "off_t*", Name |-> "offset"], [Type |-> "size_t", Name |-> "count"]>>],
    [Key |-> "SocketEventID", Params |-> <<[Type |-> "int", Name |-> "domain"], [Type |-> "int", Name |-> "type"], [Type |-> "int", Name |-> "protocol"]>>],
    [Key |-> "ConnectEventID", Params |-> <<[Type |-> "int", Name |-> "sockfd"], [Type |-> "struct sockaddr*", Name |-> "addr"], [Type |-> "int", Name |-> "addrlen"]>>],
    [Key |-> "AcceptEventID", Params |-> <<[Type |-> "int", Name |-> "sockfd"], [Type |-> "struct sockaddr*", Name |-> "addr"], [Type |-> "int*", Name |-> "addrlen"]>>],
    [Key |-> "SendtoEventID", Params |-> <<[Type |-> "int", Name |-> "sockfd"], [Type |-> "void*", Name |-> "buf"], [Type |-> "size_t", Name |-> "len"], [Type |-> "int", Name |-> "flags"], [Type |-> "struct sockaddr*", Name |-> "dest_addr"], [Type |-> "int", Name |-> "addrlen"]>>],
    [Key |-> "RecvfromEventID", Params |-> <<[Type |-> "int", Name |-> "sockfd"], [Type |-> "void*", Name |-> "buf"], [Type |-> "size_t", Name |-> "len"], [Type |-> "int", Name |-> "flags"], [Type |-> "struct sockaddr*", Name |-> "src_addr"], [Type |-> "int*", Name |-> "addrlen"]>>],
    [Key |-> "SendmsgEventID", Params |-> <<[Type |-> "int", Name |-> "sockfd"], [Type |-> "struct msghdr*", Name |-> "msg"], [Type |-> "int", Name |-> "flags"]>>],
    [Key |-> "RecvmsgEventID", Params |-> <<[Type |-> "int", Name |-> "sockfd"], [Type |-> "struct msghdr*", Name |-> "msg"], [Type |-> "int", Name |-> "flags"]>>],
    [Key |-> "ShutdownEventID", Params |-> <<[Type |-> "int", Name |-> "sockfd"], [Type |-> "int", Name |-> "how"]>>],
    [Key |-> "BindEventID", Params |-> <<[Type |-> "int", Name |-> "sockfd"], [Type |-> "struct sockaddr*", Name |-> "addr"], [Type |-> "int", Name |-> "addrlen"]>>],
    [Key |-> "ListenEventID", Params |-> <<[Type |-> "int", Name |-> "sockfd"], [Type |-> "int", Name |-> "backlog"]>>],
    [Key |-> "GetsocknameEventID", Params |-> <<[Type |-> "int", Name |-> "sockfd"], [Type |-> "struct sockaddr*", Name |-> "addr"], [Type |-> "int*", Name |-> "addrlen"]>>],
    [Key |-> "GetpeernameEventID", Params |-> <<[Type |-> "int", Name |-> "sockfd"], [Type |-> "struct sockaddr*", Name |-> "addr"], [Type |-> "int*", Name |-> "addrlen"]>>],
    [Key |-> "SocketpairEventID", Params |-> <<[Type |-> "int", Name |-> "domain"], [Type |-> "int", Name |-> "type"], [Type |-> "int", Name |-> "protocol"], [Type |-> "int[2]", Name |-> "sv"]>>],
    [Key |-> "SetsockoptEventID", Params |-> <<[Type |-> "int", Name |-> "sockfd"], [Type |-> "int", Name |-> "level"], [Type |-> "int", Name |-> "optname"], [Type |-> "const void*", Name |-> "optval"], [Type |-> "int", Name |-> "optlen"]>>],
    [Key |-> "GetsockoptEventID", Params |-> <<[Type |-> "int", Name |-> "sockfd"], [Type |-> "int", Name |-> "level"], [Type |-> "int", Name |-> "optname"], [Type |-> "void*", Name |-> "optval"], [Type |-> "int*", Name |-> "optlen"]>>],
    [Key |-> "CloneEventID", Params |-> <<[Type |-> "unsigned long", Name |-> "flags"], [Type |-> "void*", Name |-> "stack"], [Type |-> "int*", Name |-> "parent_tid"], [Type |-> "int*", Name |-> "child_tid"], [Type |-> "unsigned long", Name |-> "tls"]>>],
    [Key |-> "ForkEventID", Params |-> <<>>],
    [Key |-> "VforkEventID", Params |-> <<>>],
    [Key |-> "ExecveEventID", Params |-> <<[Type |-> "const char*", Name |-> "pathname"], [Type |-> "const char*const*", Name |-> "argv"], [Type |-> "const char*const*", Name |-> "envp"]>>],
    [Key |-> "ExitEventID", Params |-> <<[Type |-> "int", Name |-> "status"]>>],
    [Key |-> "Wait4EventID", Params |-> <<[Type |-> "pid_t", Name |-> "pid"], [Type |-> "int*", Name |-> "wstatus"], [Type |-> "int", Name |-> "options"], [Type |-> "struct rusage*", Name |-> "rusage"]>>],
    [Key |-> "KillEventID", Params |-> <<[Type |-> "pid_t", Name |-> "pid"], [Type |-> "int", Name |-> "sig"]>>],
    [Key |-> "UnameEventID", Params |-> <<[Type |-> "struct utsname*", Name |-> "buf"]>>],
    [Key |-> "SemgetEventID", Params |-> <<[Type |-> "key_t", Name |-> "key"], [Type |-> "int", Name |-> "nsems"], [Type |-> "int", Name |-> "semflg"]>>],
    [Key |-> "SemopEventID", Params |-> <<[Type |-> "int", Name |-> "semid"], [Type |-> "struct sembuf*", Name |-> "sops"], [Type |-> "size_t", Name |-> "nsops"]>>],
    [Key |-> "SemctlEventID", Params |-> <<[Type |-> "int", Name |-> "semid"], [Type |-> "int", Name |-> "semnum"], [Type |-> "int", Name |-> "cmd"], [Type |-> "unsigned long", Name |-> "arg"]>>],
    [Key |-> "ShmdtEventID", Params |-> <<[Type |-> "const void*", Name |-> "shmaddr"]>>],
    [Key |-> "MsggetEventID", Params |-> <<[Type |-> "key_t", Name |-> "key"], [Type |-> "int", Name |-> "msgflg"]>>],
    [Key |-> "MsgsndEventID", Params |-> <<[Type |-> "int", Name |-> "msqid"], [Type |-> "struct msgbuf*", Name |-> "msgp"], [Type |-> "size_t", Name |-> "msgsz"], [Type |-> "int", Name |-> "msgflg"]>>],
    [Key |-> "MsgrcvEventID", Params |-> <<[Type |-> "int", Name |-> "msqid"], [Type |-> "struct msgbuf*", Name |-> "msgp"], [Type |-> "size_t", Name |-> "msgsz"], [Type |-> "long", Name |-> "msgtyp"], [Type |-> "int", Name |-> "msgflg"]>>],
    [Key |-> "MsgctlEventID", Params |-> <<[Type |-> "int", Name |-> "msqid"], [Type |-> "int", Name |-> "cmd"], [Type |-> "struct msqid_ds*", Name |-> "buf"]>>],
    [Key |-> "FcntlEventID", Params |-> <<[Type |-> "int", Name |-> "fd"], [Type |-> "int", Name |-> "cmd"], [Type |-> "unsigned long", Name |-> "arg"]>>],
    [Key |-> "FlockEventID", Params |-> <<[Type |-> "int", Name |-> "fd"], [Type |-> "int", Name |-> "operation"]>>],
    [Key |-> "FsyncEventID", Params |-> <<[Type |-> "int", Name |-> "fd"]>>],
    [Key |-> "FdatasyncEventID", Params |-> <<[Type |-> "int", Name |-> "fd"]>>],
    [Key |-> "TruncateEventID", Params |-> <<[Type |-> "const char*", Name |-> "path"], [Type |-> "off_t", Name |-> "length"]>>],
    [Key |-> "FtruncateEventID", Params |-> <<[Type |-> "int", Name |-> "fd"], [Type |-> "off_t", Name |-> "length"]>>],
    [Key |-> "GetdentsEventID", Params |-> <<[Type |-> "int", Name |-> "fd"], [Type |-> "struct linux_dirent*", Name |-> "dirp"], [Type |-> "unsigned int", Name |-> "count"]>>],
    [Key |-> "GetcwdEventID", Params |-> <<[Type |-> "char*", Name |-> "buf"], [Type |-> "size_t", Name |-> "size"]>>],
    [Key |-> "ChdirEventID", Params |-> <<[Type |-> "const char*", Name |-> "path"]>>],
    [Key |-> "FchdirEventID", Params |-> <<[Type |-> "int", Name |-> "fd"]>>],
    [Key |-> "RenameEventID", Params |-> <<[Type |-> "const char*", Name |-> "oldpath"], [Type |-> "const char*", Name |-> "newpath"]>>],
    [Key |-> "MkdirEventID", Params |-> <<[Type |-> "const char*", Name |-> "pathname"], [Type |-> "mode_t", Name |-> "mode"]>>],
    [Key |-> "RmdirEventID", Params |-> <<[Type |-> "const char*", Name |-> "pathname"]>>],
    [Key |-> "CreatEventID", Params |-> <<[Type |-> "const char*", Name |-> "pathname"], [Type |-> "mode_t", Name |-> "mode"]>>],
    [Key |-> "LinkEventID", Params |-> <<[Type |-> "const char*", Name |-> "oldpath"], [Type |-> "const char*", Name |-> "newpath"]>>],
    [Key |-> "UnlinkEventID", Params |-> <<[Type |-> "const char*", Name |-> "pathname"]>>],
    [Key |-> "SymlinkEventID", Params |-> <<[Type |-> "const char*", Name |-> "target"], [Type |-> "const char*", Name |-> "linkpath"]>>],
    [Key |-> "ReadlinkEventID", Params |-> <<[Type |-> "const char*", Name |-> "pathname"], [Type |-> "char*", Name |-> "buf"], [Type |-> "size_t", Name |-> "bufsiz"]>>],
    [Key |-> "ChmodEventID", Params |-> <<[Type |-> "const char*", Name |-> "pathname"], [Type |-> "mode_t", Name |-> "mode"]>>],
    [Key |-> "FchmodEventID", Params |-> <<[Type |-> "int", Name |-> "fd"], [Type |-> "mode_t", Name |-> "mode"]>>],
    [Key |-> "ChownEventID", Params |-> <<[Type |-> "const char*", Name |-> "pathname"], [Type |-> "uid_t", Name |-> "owner"], [Type |-> "gid_t", Name |-> "group"]>>],
    [Key |-> "FchownEventID", Params |-> <<[Type |-> "int", Name |-> "fd"], [Type |-> "uid_t", Name |-> "owner"], [Type |-> "gid_t", Name |-> "group"]>>],
    [Key |-> "LchownEventID", Params |-> <<[Type |-> "const char*", Name |-> "pathname"], [Type |-> "uid_t", Name |-> "owner"], [Type |-> "gid_t", Name |-> "group"]>>],
    [Key |-> "UmaskEventID", Params |-> <<[Type |-> "mode_t", Name |-> "mask"]>>],
    [Key |-> "GettimeofdayEventID", Params |-> <<[Type |-> "struct timeval*", Name |-> "tv"], [Type |-> "struct timezone*", Name |-> "tz"]>>],
    [Key |-> "GetrlimitEventID", Params |-> <<[Type |-> "int", Name |-> "resource"], [Type |-> "struct rlimit*", Name |-> "rlim"]>>],
    [Key |-> "GetrusageEventID", Params |-> <<[Type |-> "int", Name |-> "who"], [Type |-> "struct rusage*", Name |-> "usage"]>>],
    [Key |-> "SysinfoEventID", Params |-> <<[Type |-> "struct sysinfo*", Name |-> "info"]>>],
    [Key |-> "TimesEventID", Params |-> <<[Type |-> "struct tms*", Name |-> "buf"]>>],
    [Key |-> "PtraceEventID", Params |-> <<[Type |-> "long", Name |-> "request"], [Type |-> "pid_t", Name |-> "pid"], [Type |-> "void*", Name |-> "addr"], [Type |-> "void*", Name |-> "data"]>>],
    [Key |-> "GetuidEventID", Params |-> <<>>],
    [Key |-> "SyslogEventID", Params |-> <<[Type |-> "int", Name |-> "type"], [Type |-> "char*", Name |-> "bufp"], [Type |-> "int", Name |-> "len"]>>],
    [Key |-> "GetgidEventID", Params |-> <<>>],
    [Key |-> "SetuidEventID", Params |-> <<[Type |-> "uid_t", Name |-> "uid"]>>],
    [Key |-> "SetgidEventID", Params |-> <<[Type |-> "gid_t", Name |-> "gid"]>>],
    [Key |-> "GeteuidEventID", Params |-> <<>>],
    [Key |-> "GetegidEventID", Params |-> <<>>],
    [Key |-> "SetpgidEventID", Params |-> <<[Type |-> "pid_t", Name |-> "pid"], [Type |-> "pid_t", Name |-> "pgid"]>>],
    [Key |-> "GetppidEventID", Params |-> <<>>],
    [Key |-> "GetpgrpEventID", Params |-> <<>>],
    [Key |-> "SetsidEventID", Params |-> <<>>],
    [Key |-> "SetreuidEventID", Params |-> <<[Type |-> "uid_t", Name |-> "ruid"], [Type |-> "uid_t", Name |-> "euid"]>>],
    [Key |-> "SetregidEventID", Params |-> <<[Type |-> "gid_t", Name |-> "rgid"], [Type |-> "gid_t", Name |-> "egid"]>>],
    [Key |-> "GetgroupsEventID", Params |-> <<[Type |-> "int", Name |-> "size"], [Type |-> "gid_t*", Name |-> "list"]>>],
    [Key |-> "SetgroupsEventID", Params |-> <<[Type |-> "int", Name |-> "size"], [Type |-> "gid_t*", Name |-> "list"]>>],
    [Key |-> "SetresuidEventID", Params |-> <<[Type |-> "uid_t", Name |-> "ruid"], [Type |-> "uid_t", Name |-> "euid"], [Type |-> "uid_t", Name |-> "suid"]>>],
    [Key |-> "GetresuidEventID", Params |-> <<[Type |-> "uid_t*", Name |-> "ruid"], [Type |-> "uid_t*", Name |-> "euid"], [Type |-> "uid_t*", Name |-> "suid"]>>],
    [Key |-> "SetresgidEventID", Params |-> <<[Type |-> "gid_t", Name |-> "rgid"], [Type |-> "gid_t", Name |-> "egid"], [Type |-> "gid_t", Name |-> "sgid"]>>],
    [Key |-> "GetresgidEventID", Params |-> <<[Type |-> "gid_t*", Name |-> "rgid"], [Type |-> "gid_t*", Name |-> "egid"], [Type |-> "gid_t*", Name |-> "sgid"]>>],
    [Key |-> "GetpgidEventID", Params |-> <<[Type |-> "pid_t", Name |-> "pid"]>>],
    [Key |-> "SetfsuidEventID", Params |-> <<[Type |-> "uid_t", Name |-> "fsuid"]>>],
    [Key |-> "SetfsgidEventID", Params |-> <<[Type |-> "gid_t", Name |-> "fsgid"]>>],
    [Key |-> "GetsidEventID", Params |-> <<[Type |-> "pid_t", Name |-> "pid"]>>],
    [Key |-> "CapgetEventID", Params |-> <<[Type |-> "cap_user_header_t", Name |-> "hdrp"], [Type |-> "cap_user_data_t", Name |-> "datap"]>>],
    [Key |-> "CapsetEventID", Params |-> <<[Type |-> "cap_user_header_t", Name |-> "hdrp"], [Type |-> "const cap_user_data_t", Name |-> "datap"]>>],
    [Key |-> "RtSigpendingEventID", Params |-> <<[Type |-> "sigset_t*", Name |-> "set"], [Type |-> "size_t", Name |-> "sigsetsize"]>>],
    [Key |-> "RtSigtimedwaitEventID", Params |-> <<[Type |-> "const sigset_t*", Name |-> "set"], [Type |-> "siginfo_t*", Name |-> "info"], [Type |-> "const struct timespec*", Name |-> "timeout"], [Type |-> "size_t", Name |-> "sigsetsize"]>>],
    [Key |-> "RtSigqueueinfoEventID", Params |-> <<[Type |-> "pid_t", Name |-> "tgid"], [Type |-> "int", Name |-> "sig"], [Type |-> "siginfo_t*", Name |-> "info"]>>],
    [Key |-> "RtSigsuspendEventID", Params |-> <<[Type |-> "sigset_t*", Name |-> "mask"], [Type |-> "size_t", Name |-> "sigsetsize"]>>],
    [Key |-> "SigaltstackEventID", Params |-> <<[Type |-> "const stack_t*", Name |-> "ss"], [Type |-> "stack_t*", Name |-> "old_ss"]>>],
    [Key |-> "UtimeEventID", Params |-> <<[Type |-> "const char*", Name |-> "filename"], [Type |-> "const struct utimbuf*", Name |-> "times"]>>],
    [Key |-> "MknodEventID", Params |-> <<[Type |-> "const char*", Name |-> "pathname"], [Type |-> "mode_t", Name |-> "mode"], [Type |-> "dev_t", Name |-> "dev"]>>],
    [Key |-> "UselibEventID", Params |-> <<[Type |-> "const char*", Name |-> "library"]>>],
    [Key |-> "PersonalityEventID", Params |-> <<[Type |-> "unsigned long", Name |-> "persona"]>>],
    [Key |-> "UstatEventID", Params |-> <<[Type |-> "dev_t", Name |-> "dev"], [Type |-> "struct ustat*", Name |-> "ubuf"]>>],
    [Key |-> "StatfsEventID", Params |-> <<[Type |-> "const char*", Name |-> "path"], [Type |-> "struct statfs*", Name |-> "buf"]>>],
    [Key |-> "FstatfsEventID", Params |-> <<[Type |-> "int", Name |-> "fd"], [Type |-> "struct statfs*", Name |-> "buf"]>>],
    [Key |-> "SysfsEventID", Params |-> <<[Type |-> "int", Name |-> "option"]>>],
    [Key |-> "GetpriorityEventID", Params |-> <<[Type |-> "int", Name |-> "which"], [Type |-> "int", Name |-> "who"]>>],
    [Key |-> "SetpriorityEventID", Params |-> <<[Type |-> "int", Name |-> "which"], [Type |-> "int", Name |-> "who"], [Type |-> "int", Name |-> "prio"]>>],
    [Key |-> "SchedSetparamEventID", Params |-> <<[Type |-> "pid_t", Name |-> "pid"], [Type |-> "struct sched_param*", Name |-> "param"]>>],
    [Key |-> "SchedGetparamEventID", Params |-> <<[Type |-> "pid_t", Name |-> "pid"], [Type |-> "struct sched_param*", Name |-> "param"]>>],
    [Key |-> "SchedSetschedulerEventID", Params |-> <<[Type |-> "pid_t", Name |-> "pid"], [Type |-> "int", Name |-> "policy"], [Type |-> "struct sched_param*", Name |-> "param"]>>],
    [Key |-> "SchedGetschedulerEventID", Params |-> <<[Type |-> "pid_t", Name |-> "pid"]>>],
    [Key |-> "SchedGetPriorityMaxEventID", Params |-> <<[Type |-> "int", Name |-> "policy"]>>],
    [Key |-> "SchedGetPriorityMinEventID", Params |-> <<[Type |-> "int", Name |-> "policy"]>>],
    [Key |-> "SchedRrGetIntervalEventID", Params |-> <<[Type |-> "pid_t", Name |-> "pid"], [Type |-> "struct timespec*", Name |-> "tp"]>>],
    [Key |-> "MlockEventID", Params |-> <<[Type |-> "const void*", Name |-> "addr"], [Type |-> "size_t", Name |-> "len"]>>],
    [Key |-> "MunlockEventID", Params |-> <<[Type |-> "const void*", Name |-> "addr"], [Type |-> "size_t", Name |-> "len"]>>],
    [Key |-> "MlockallEventID", Params |-> <<[Type |-> "int", Name |-> "flags"]>>],
    [Key |-> "MunlockallEventID", Params |-> <<>>],
    [Key |-> "VhangupEventID", Params |-> <<>>],
    [Key |-> "ModifyLdtEventID", Params |-> <<[Type |-> "int", Name |-> "func"], [Type |-> "void*", Name |-> "ptr"], [Type |-> "unsigned long", Name |-> "bytecount"]>>],
    [Key |-> "PivotRootEventID", Params |-> <<[Type |-> "const char*", Name |-> "new_root"], [Type |-> "const char*", Name |-> "put_old"]>>],
    [Key |-> "SysctlEventID", Params |-> <<[Type |-> "struct __sysctl_args*", Name |-> "args"]>>],
    [Key |-> "PrctlEventID", Params |-> <<[Type |-> "int", Name |-> "option"], [Type |-> "unsigned long", Name |-> "arg2"], [Type |-> "unsigned long", Name |-> "arg3"], [Type |-> "unsigned long", Name |-> "arg4"], [Type |-> "unsigned long", Name |-> "arg5"]>>],
    [Key |-> "ArchPrctlEventID", Params |-> <<[Type |-> "int", Name |-> "option"], [Type |-> "unsigned long", Name |-> "addr"]>>],
    [Key |-> "AdjtimexEventID", Params |-> <<[Type |-> "struct timex*", Name |-> "buf"]>>],
    [Key |-> "SetrlimitEventID", Params |-> <<[Type |-> "int", Name |-> "resource"], [Type |-> "const struct rlimit*", Name |-> "rlim"]>>],
    [Key |-> "ChrootEventID", Params |-> <<[Type |-> "const char*", Name |-> "path"]>>],
    [Key |-> "SyncEventID", Params |-> <<>>],
    [Key |-> "AcctEventID", Params |-> <<[Type |-> "const char*", Name |-> "filename"]>>],
    [Key |-> "SettimeofdayEventID", Params |-> <<[Type |-> "const struct timeval*", Name |-> "tv"], [Type |-> "const struct timezone*", Name |-> "tz"]>>],
    [Key |-> "MountEventID", Params |-> <<[Type |-> "const char*", Name |-> "source"], [Type |-> "const char*", Name |-> "target"], [Type |-> "const char*", Name |-> "filesystemtype"], [Type |-> "unsigned long", Name |-> "mountflags"], [Type |-> "const void*", Name |-> "data"]>>],
    [Key |-> "UmountEventID", Params |-> <<[Type |-> "const char*", Name |-> "target"], [Type |-> "int", Name |-> "flags"]>>],
    [Key |-> "SwaponEventID", Params |-> <<[Type |-> "const char*", Name |-> "path"], [Type |-> "int", Name |-> "swapflags"]>>],
    [Key |-> "SwapoffEventID", Params |-> <<[Type |-> "const char*", Name |-> "path"]>>],
    [Key |-> "RebootEventID", Params |-> <<[Type |-> "int", Name |-> "magic"], [Type |-> "int", Name |-> "magic2"], [Type |-> "int", Name |-> "cmd"], [Type |-> "void*", Name |-> "arg"]>>],
    [Key |-> "SethostnameEventID", Params |-> <<[Type |-> "const char*", Name |-> "name"], [Type |-> "size_t", Name |-> "len"]>>],
    [Key |-> "SetdomainnameEventID", Params |-> <<[Type |-> "const char*", Name |-> "name"], [Type |-> "size_t", Name |-> "len"]>>],
    [Key |-> "IoplEventID", Params |-> <<[Type |-> "int", Name |-> "level"]>>],
    [Key |-> "IopermEventID", Params |-> <<[Type |-> "unsigned long", Name |-> "from"], [Type |-> "unsigned long", Name |-> "num"], [Type |-> "int", Name |-> "turn_on"]>>],
    [Key |-> "InitModuleEventID", Params |-> <<[Type |-> "void*", Name |-> "module_image"], [Type |-> "unsigned long", Name |-> "len"], [Type |-> "const char*", Name |-> "param_values"]>>],
    [Key |-> "DeleteModuleEventID", Params |-> <<[Type |-> "const char*", Name |-> "name"], [Type |-> "int", Name |-> "flags"]>>],
    [Key |-> "QuotactlEventID", Params |-> <<[Type |-> "int", Name |-> "cmd"], [Type |-> "const char*", Name |-> "special"], [Type |-> "int", Name |-> "id"], [Type |-> "void*", Name |-> "addr"]>>],
    [Key |-> "GettidEventID", Params |-> <<>>],
    [Key |-> "ReadaheadEventID", Params |-> <<[Type |-> "int", Name |-> "fd"], [Type |-> "off_t", Name |-> "offset"], [Type |-> "size_t", Name |-> "count"]>>],
    [Key |-> "SetxattrEventID", Params |-> <<[Type |-> "const char*", Name |-> "path"], [Type |-> "const char*", Name |-> "name"], [Type |-> "const void*", Name |-> "value"], [Type |-> "size_t", Name |-> "size"], [Type |-> "int", Name |-> "flags"]>>],
    [Key |-> "LsetxattrEventID", Params |-> <<[Type |-> "const char*", Name |-> "path"], [Type |-> "const char*", Name |-> "name"], [Type |-> "const void*", Name |-> "value"], [Type |-> "size_t", Name |-> "size"], [Type |-> "int", Name |-> "flags"]>>],
    [Key |-> "FsetxattrEventID", Params |-> <<[Type |-> "int", Name |-> "fd"], [Type |-> "const char*", Name |-> "name"], [Type |-> "const void*", Name |-> "value"], [Type |-> "size_t", Name |-> "size"], [Type |-> "int", Name |-> "flags"]>>],
    [Key |-> "GetxattrEventID", Params |-> <<[Type |-> "const char*", Name |-> "path"], [Type |-> "const char*", Name |-> "name"], [Type |-> "void*", Name |-> "value"], [Type |-> "size_t", Name |-> "size"]>>],
    [Key |-> "LgetxattrEventID", Params |-> <<[Type |-> "const char*", Name |-> "path"], [Type |-> "const char*", Name |-> "name"], [Type |-> "void*", Name |-> "value"], [Type |-> "size_t", Name |-> "size"]>>],
    [Key |-> "FgetxattrEventID", Params |-> <<[Type |-> "int", Name |-> "fd"], [Type |-> "const char*", Name |-> "name"], [Type |-> "void*", Name |-> "value"], [Type |-> "size_t", Name |-> "size"]>>],
    [Key |-> "ListxattrEventID", Params |-> <<[Type |-> "const char*", Name |-> "path"], [Type |-> "char*", Name |-> "list"], [Type |-> "size_t", Name |-> "size"]>>],
    [Key |-> "LlistxattrEventID", Params |-> <<[Type |-> "const char*", Name |-> "path"], [Type |-> "char*", Name |-> "list"], [Type |-> "size_t", Name |-> "size"]>>],
    [Key |-> "FlistxattrEventID", Params |-> <<[Type |-> "int", Name |-> "fd"], [Type |-> "char*", Name |-> "list"], [Type |-> "size_t", Name |-> "size"]>>],
    [Key |-> "RemovexattrEventID", Params |-> <<[Type |-> "const char*", Name |-> "path"], [Type |-> "const char*", Name |-> "name"]>>],
    [Key |-> "LremovexattrEventID", Params |-> <<[Type |-> "const char*", Name |-> "path"], [Type |-> "const char*", Name |-> "name"]>>],
    [Key |-> "FremovexattrEventID", Params |-> <<[Type |-> "int", Name |-> "fd"], [Type |-> "const char*", Name |-> "name"]>>],
    [Key |-> "TkillEventID", Params |-> <<[Type |-> "int", Name |-> "tid"], [Type |-> "int", Name |-> "sig"]>>],
    [Key |-> "TimeEventID", Params |-> <<[Type |-> "time_t*", Name |-> "tloc"]>>],
    [Key |-> "FutexEventID", Params |-> <<[Type |-> "int*", Name |-> "uaddr"], [Type |-> "int", Name |-> "futex_op"], [Type |-> "int", Name |-> "val"], [Type |-> "const struct timespec*", Name |-> "timeout"], [Type |-> "int*", Name |-> "uaddr2"], [Type |-> "int", Name |-> "val3"]>>],
    [Key |-> "SchedSetaffinityEventID", Params |-> <<[Type |-> "pid_t", Name |-> "pid"], [Type |-> "size_t", Name |-> "cpusetsize"], [Type |-> "unsigned long*", Name |-> "mask"]>>],
    [Key |-> "SchedGetaffinityEventID", Params |-> <<[Type |-> "pid_t", Name |-> "pid"], [Type |-> "size_t", Name |-> "cpusetsize"], [Type |-> "unsigned long*", Name |-> "mask"]>>],
    [Key |-> "SetThreadAreaEventID", Params |-> <<[Type |-> "struct user_desc*", Name |-> "u_info"]>>],
    [Key |-> "IoSetupEventID", Params |-> <<[Type |-> "unsigned int", Name |-> "nr_events"], [Type |-> "io_context_t*", Name |-> "ctx_idp"]>>],
    [Key |-> "IoDestroyEventID", Params |-> <<[Type |-> "io_context_t", Name |-> "ctx_id"]>>],
    [Key |-> "IoGeteventsEventID", Params |-> <<[Type |-> "io_context_t", Name |-> "ctx_id"], [Type |-> "long", Name |-> "min_nr"], [Type |-> "long", Name |-> "nr"], [Type |-> "struct io_event*", Name |-> "events"], [Type |-> "struct timespec*", Name |-> "timeout"]>>],
    [Key |-> "IoSubmitEventID", Params |-> <<[Type |-> "io_context_t", Name |-> "ctx_id"], [Type |-> "long", Name |-> "nr"], [Type |-> "struct iocb**", Name |-> "iocbpp"]>>],
    [Key |-> "IoCancelEventID", Params |-> <<[Type |-> "io_context_t", Name |-> "ctx_id"], [Type |-> "struct iocb*", Name |-> "iocb"], [Type |-> "struct io_event*", Name |-> "result"]>>],
    [Key |-> "GetThreadAreaEventID", Params |-> <<[Type |-> "struct user_desc*", Name |-> "u_info"]>>],
    [Key |-> "LookupDcookieEventID", Params |-> <<[Type |-> "u64", Name |-> "cookie"], [Type |-> "char*", Name |-> "buffer"], [Type |-> "size_t", Name |-> "len"]>>],
    [Key |-> "EpollCreateEventID", Params |-> <<[Type |-> "int", Name |-> "size"]>>],
    [Key |-> "RemapFilePagesEventID", Params |-> <<[Type |-> "void*", Name |-> "addr"], [Type |-> "size_t", Name |-> "size"], [Type |-> "int", Name |-> "prot"], [Type |-> "size_t", Name |-> "pgoff"], [Type |-> "int", Name |-> "flags"]>>],
    [Key |-> "Getdents64EventID", Params |-> <<[Type |-> "unsigned int", Name |-> "fd"], [Type |-> "struct linux_dirent64*", Name |-> "dirp"], [Type |-> "unsigned int", Name |-> "count"]>>],
    [Key |-> "SetTidAddressEventID", Params |-> <<[Type |-> "int*", Name |-> "tidptr"]>>],
    [Key |-> "RestartSyscallEventID", Params |-> <<>>],
    [Key |-> "SemtimedopEventID", Params |-> <<[Type |-> "int", Name |-> "semid"], [Type |-> "struct sembuf*", Name |-> "sops"], [Type |-> "size_t", Name |-> "nsops"], [Type |-> "const struct timespec*", Name |-> "timeout"]>>],
    [Key |-> "Fadvise64EventID", Params |-> <<[Type |-> "int", Name |-> "fd"], [Type |-> "off_t", Name |-> "offset"], [Type |-> "size_t", Name |-> "len"], [Type |-> "int", Name |-> "advice"]>>],
    [Key |-> "TimerCreateEventID", Params |-> <<[Type |-> "const clockid_t", Name |-> "clockid"], [Type |-> "struct sigevent*", Name |-> "sevp"], [Type |-> "timer_t*", Name |-> "timer_id"]>>],
    [Key |-> "TimerSettimeEventID", Params |-> <<[Type |-> "timer_t", Name |-> "timer_id"], [Type |-> "int", Name |-> "flags"], [Type |-> "const struct itimerspec*", Name |-> "new_value"], [Type |-> "struct itimerspec*", Name |-> "old_value"]>>],
    [Key |-> "TimerGettimeEventID", Params |-> <<[Type |-> "timer_t", Name |-> "timer_id"], [Type |-> "struct itimerspec*", Name |-> "curr_value"]>>],
    [Key |-> "TimerGetoverrunEventID", Params |-> <<[Type |-> "timer_t", Name |-> "timer_id"]>>],
    [Key |-> "TimerDeleteEventID", Params |-> <<[Type |-> "timer_t", Name |-> "timer_id"]>>],
    [Key |-> "ClockSettimeEventID", Params |-> <<[Type |-> "const clockid_t", Name |-> "clockid"], [Type |-> "const struct timespec*", Name |-> "tp"]>>],
    [Key |-> "ClockGettimeEventID", Params |-> <<[Type |-> "const clockid_t", Name |-> "clockid"], [Type |-> "struct timespec*", Name |-> "tp"]>>],
    [Key |-> "ClockGetresEventID", Params |-> <<[Type |-> "const clockid_t", Name |-> "clockid"], [Type |-> "struct timespec*", Name |-> "res"]>>],
    [Key |-> "ClockNanosleepEventID", Params |-> <<[Type |-> "const clockid_t", Name |-> "clockid"], [Type |-> "int", Name |-> "flags"], [Type |-> "const struct timespec*", Name |-> "request"], [Type |-> "struct timespec*", Name |-> "remain"]>>],
    [Key |-> "ExitGroupEventID", Params |-> <<[Type |-> "int", Name |-> "status"]>>],
    [Key |-> "EpollWaitEventID", Params |-> <<[Type |-> "int", Name |-> "epfd"], [Type |-> "struct epoll_event*", Name |-> "events"], [Type |-> "int", Name |-> "maxevents"], [Type |-> "int", Name |-> "timeout"]>>],
    [Key |-> "EpollCtlEventID", Params |-> <<[Type |-> "int", Name |-> "epfd"], [Type |-> "int", Name |-> "op"], [Type |-> "int", Name |-> "fd"], [Type |-> "struct epoll_event*", Name |-> "event"]>>],
    [Key |-> "TgkillEventID", Params |-> <<[Type |-> "int", Name |-> "tgid"], [Type |-> "int", Name |-> "tid"], [Type |-> "int", Name |-> "sig"]>>],
    [Key |-> "UtimesEventID", Params |-> <<[Type |-> "char*", Name |-> "filename"], [Type |-> "struct timeval*", Name |-> "times"]>>],
    [Key |-> "MbindEventID", Params |-> <<[Type |-> "void*", Name |-> "addr"], [Type |-> "unsigned long", Name |-> "len"], [Type |-> "int", Name |-> "mode"], [Type |-> "const unsigned long*", Name |-> "nodemask"], [Type |-> "unsigned long", Name |-> "maxnode"], [Type |-> "unsigned int", Name |-> "flags"]>>],
    [Key |-> "SetMempolicyEventID", Params |-> <<[Type |-> "int", Name |-> "mode"], [Type |-> "const unsigned long*", Name |-> "nodemask"], [Type |-> "unsigned long", Name |-> "maxnode"]>>],
    [Key |-> "GetMempolicyEventID", Params |-> <<[Type |-> "int*", Name |-> "mode"], [Type |-> "unsigned long*", Name |-> "nodemask"], [Type |-> "unsigned long", Name |-> "maxnode"], [Type |-> "void*", Name |-> "addr"], [Type |-> "unsigned long", Name |-> "flags"]>>],
    [Key |-> "MqOpenEventID", Params |-> <<[Type |-> "const char*", Name |-> "name"], [Type |-> "int", Name |-> "oflag"], [Type |-> "mode_t", Name |-> "mode"], [Type |-> "struct mq_attr*", Name |-> "attr"]>>],
    [Key |-> "MqUnlinkEventID", Params |-> <<[Type |-> "const char*", Name |-> "name"]>>],
    [Key |-> "MqTimedsendEventID", Params |-> <<[Type |-> "mqd_t", Name |-> "mqdes"], [Type |-> "const char*", Name |-> "msg_ptr"], [Type |-> "size_t", Name |-> "msg_len"], [Type |-> "unsigned int", Name |-> "msg_prio"], [Type |-> "const struct timespec*", Name |-> "abs_timeout"]>>],
    [Key |-> "MqTimedreceiveEventID", Params |-> <<[Type |-> "mqd_t", Name |-> "mqdes"], [Type |-> "char*", Name |-> "msg_ptr"], [Type |-> "size_t", Name |-> "msg_len"], [Type |-> "unsigned int*", Name |-> "msg_prio"], [Type |-> "const struct timespec*", Name |-> "abs_timeout"]>>],
    [Key |-> "MqNotifyEventID", Params |-> <<[Type |-> "mqd_t", Name |-> "mqdes"], [Type |-> "const struct sigevent*", Name |-> "sevp"]>>],
    [Key |-> "MqGetsetattrEventID", Params |-> <<[Type |-> "mqd_t", Name |-> "mqdes"], [Type |-> "const struct mq_attr*", Name |-> "newattr"], [Type |-> "struct mq_attr*", Name |-> "oldattr"]>>],
    [Key |-> "KexecLoadEventID", Params |-> <<[Type |-> "unsigned long", Name |-> "entry"], [Type |-> "unsigned long", Name |-> "nr_segments"], [Type |-> "struct kexec_segment*", Name |-> "segments"], [Type |-> "unsigned long", Name |-> "flags"]>>],
    [Key |-> "WaitidEventID", Params |-> <<[Type |-> "int", Name |-> "idtype"], [Type |-> "pid_t", Name |-> "id"], [Type |-> "struct siginfo*", Name |-> "infop"], [Type |-> "int", Name |-> "options"], [Type |-> "struct rusage*", Name |-> "rusage"]>>],
    [Key |-> "AddKeyEventID", Params |-> <<[Type |-> "const char*", Name |-> "type"], [Type |-> "const char*", Name |-> "description"], [Type |-> "const void*", Name |-> "payload"], [Type |-> "size_t", Name |-> "plen"], [Type |-> "key_serial_t", Name |-> "keyring"]>>],
    [Key |-> "RequestKeyEventID", Params |-> <<[Type |-> "const char*", Name |-> "type"], [Type |-> "const char*", Name |-> "description"], [Type |-> "const char*", Name |-> "callout_info"], [Type |-> "key_serial_t", Name |-> "dest_keyring"]>>],
    [Key |-> "KeyctlEventID", Params |-> <<[Type |-> "int", Name |-> "operation"], [Type |-> "unsigned long", Name |-> "arg2"], [Type |-> "unsigned long", Name |-> "arg3"], [Type |-> "unsigned long", Name |-> "arg4"], [Type |-> "unsigned long", Name |-> "arg5"]>>],
    [Key |-> "IoprioSetEventID", Params |-> <<[Type |-> "int", Name |-> "which"], [Type |-> "int", Name |-> "who"], [Type |-> "int", Name |-> "ioprio"]>>],
    [Key |-> "IoprioGetEventID", Params |-> <<[Type |-> "int", Name |-> "which"], [Type |-> "int", Name |-> "who"]>>],
    [Key |-> "InotifyInitEventID", Params |-> <<>>],
    [Key |-> "InotifyAddWatchEventID", Params |-> <<[Type |-> "int", Name |-> "fd"], [Type |-> "const char*", Name |-> "pathname"], [Type |-> "u32", Name |-> "mask"]>>],
    [Key |-> "InotifyRmWatchEventID", Params |-> <<[Type |-> "int", Name |-> "fd"], [Type |-> "int", Name |-> "wd"]>>],
    [Key |-> "MigratePagesEventID", Params |-> <<[Type |-> "int", Name |-> "pid"], [Type |-> "unsigned long", Name |-> "maxnode"], [Type |-> "const unsigned long*", Name |-> "old_nodes"], [Type |-> "const unsigned long*", Name |-> "new_nodes"]>>],
    [Key |-> "OpenatEventID", Params |-> <<[Type |-> "int", Name |-> "dirfd"], [Type |-> "const char*", Name |-> "pathname"], [Type |-> "int", Name |-> "flags"], [Type |-> "mode_t", Name |-> "mode"]>>],
    [Key |-> "MkdiratEventID", Params |-> <<[Type |-> "int", Name |-> "dirfd"], [Type |-> "const char*", Name |-> "pathname"], [Type |-> "mode_t", Name |-> "mode"]>>],
    [Key |-> "MknodatEventID", Params |-> <<[Type |-> "int", Name |-> "dirfd"], [Type |-> "const char*", Name |-> "pathname"], [Type |-> "mode_t", Name |-> "mode"], [Type |-> "dev_t", Name |-> "dev"]>>],
    [Key |-> "FchownatEventID", Params |-> <<[Type |-> "int", Name |-> "dirfd"], [Type |-> "const char*", Name |-> "pathname"], [Type |-> "uid_t", Name |-> "owner"], [Type |-> "gid_t", Name |-> "group"], [Type |-> "int", Name |-> "flags"]>>],
    [Key |-> "FutimesatEventID", Params |-> <<[Type |-> "int", Name |-> "dirfd"], [Type |-> "const char*", Name |-> "pathname"], [Type |-> "struct timeval*", Name |-> "times"]>>],
    [Key |-> "NewfstatatEventID", Params |-> <<[Type |-> "int", Name |-> "dirfd"], [Type |-> "const char*", Name |-> "pathname"], [Type |-> "struct stat*", Name |-> "statbuf"], [Type |-> "int", Name |-> "flags"]>>],
    [Key |-> "UnlinkatEventID", Params |-> <<[Type |-> "int", Name |-> "dirfd"], [Type |-> "const char*", Name |-> "pathname"], [Type |-> "int", Name |-> "flags"]>>],
    [Key |-> "RenameatEventID", Params |-> <<[Type |-> "int", Name |-> "olddirfd"], [Type |-> "const char*", Name |-> "oldpath"], [Type |-> "int", Name |-> "newdirfd"], [Type |-> "const char*", Name |-> "newpath"]>>],
    [Key |-> "LinkatEventID", Params |-> <<[Type |-> "int", Name |-> "olddirfd"], [Type |-> "const char*", Name |-> "oldpath"], [Type |-> "int", Name |-> "newdirfd"], [Type |-> "const char*", Name |-> "newpath"], [Type |-> "unsigned int", Name |-> "flags"]>>],
    [Key |-> "SymlinkatEventID", Params |-> <<[Type |-> "const char*", Name |-> "target"], [Type |-> "int", Name |-> "newdirfd"], [Type |-> "const char*", Name |-> "linkpath"]>>],
    [Key |-> "ReadlinkatEventID", Params |-> <<[Type |-> "int", Name |-> "dirfd"], [Type |-> "const char*", Name |-> "pathname"], [Type |-> "char*", Name |-> "buf"], [Type |-> "int", Name |-> "bufsiz"]>>],
    [Key |-> "FchmodatEventID", Params |-> <<[Type |-> "int", Name |-> "dirfd"], [Type |-> "const char*", Name |-> "pathname"], [Type |-> "mode_t", Name |-> "mode"], [Type |-> "int", Name |-> "flags"]>>],
    [Key |-> "FaccessatEventID", Params |-> <<[Type |-> "int", Name |-> "dirfd"], [Type |-> "const char*", Name |-> "pathname"], [Type |-> "int", Name |-> "mode"], [Type |-> "int", Name |-> "flags"]>>],
    [Key |-> "Pselect6EventID", Params |-> <<[Type |-> "int", Name |-> "nfds"], [Type |-> "fd_set*", Name |-> "readfds"], [Type |-> "fd_set*", Name |-> "writefds"], [Type |-> "fd_set*", Name |-> "exceptfds"], [Type |-> "struct timespec*", Name |-> "timeout"], [Type |-> "void*", Name |-> "sigmask"]>>],
    [Key |-> "PpollEventID", Params |-> <<[Type |-> "struct pollfd*", Name |-> "fds"], [Type |-> "unsigned int", Name |-> "nfds"], [Type |-> "struct timespec*", Name |-> "tmo_p"], [Type |-> "const sigset_t*", Name |-> "sigmask"], [Type |-> "size_t", Name |-> "sigsetsize"]>>],
    [Key |-> "UnshareEventID", Params |-> <<[Type |-> "int", Name |-> "flags"]>>],
    [Key |-> "SetRobustListEventID", Params |-> <<[Type |-> "struct robust_list_head*", Name |-> "head"], [Type |-> "size_t", Name |-> "len"]>>],
    [Key |-> "GetRobustListEventID", Params |-> <<[Type |-> "int", Name |-> "pid"], [Type |-> "struct robust_list_head**", Name |-> "head_ptr"], [Type |-> "size_t*", Name |-> "len_ptr"]>>],
    [Key |-> "SpliceEventID", Params |-> <<[Type |-> "int", Name |-> "fd_in"], [Type |-> "off_t*", Name |-> "off_in"], [Type |-> "int", Name |-> "fd_out"], [Type |-> "off_t*", Name |-> "off_out"], [Type |-> "size_t", Name |-> "len"], [Type |-> "unsigned int", Name |-> "flags"]>>],
    [Key |-> "TeeEventID", Params |-> <<[Type |-> "int", Name |-> "fd_in"], [Type |-> "int", Name |-> "fd_out"], [Type |-> "size_t", Name |-> "len"], [Type |-> "unsigned int", Name |-> "flags"]>>],
    [Key |-> "SyncFileRangeEventID", Params |-> <<[Type |-> "int", Name |-> "fd"], [Type |-> "off_t", Name |-> "offset"], [Type |-> "off_t", Name |-> "nbytes"], [Type |-> "unsigned int", Name |-> "flags"]>>],
    [Key |-> "VmspliceEventID", Params |-> <<[Type |-> "int", Name |-> "fd"], [Type |-> "const struct iovec*", Name |-> "iov"], [Type |-> "unsigned long", Name |-> "nr_segs"], [Type |-> "unsigned int", Name |-> "flags"]>>],
    [Key |-> "MovePagesEventID", Params |-> <<[Type |-> "int", Name |-> "pid"], [Type |-> "unsigned long", Name |-> "count"], [Type |-> "const void**", Name |-> "pages"], [Type |-> "const int*", Name |-> "nodes"], [Type |-> "int*", Name |-> "status"], [Type |-> "int", Name |-> "flags"]>>],
    [Key |-> "UtimensatEventID", Params |-> <<[Type |-> "int", Name |-> "dirfd"], [Type |-> "const char*", Name |-> "pathname"], [Type |-> "struct timespec*", Name |-> "times"], [Type |-> "int", Name |-> "flags"]>>],
    [Key |-> "EpollPwaitEventID", Params |-> <<[Type |-> "int", Name |-> "epfd"], [Type |-> "struct epoll_event*", Name |-> "events"], [Type |-> "int", Name |-> "maxevents"], [Type |-> "int", Name |-> "timeout"], [Type |-> "const sigset_t*", Name |-> "sigmask"], [Type |-> "size_t", Name |-> "sigsetsize"]>>],
    [Key |-> "SignalfdEventID", Params |-> <<[Type |-> "int", Name |-> "fd"], [Type |-> "sigset_t*", Name |-> "mask"], [Type |-> "int", Name |-> "flags"]>>],
    [Key |-> "TimerfdCreateEventID", Params |-> <<[Type |-> "int", Name |-> "clockid"], [Type |-> "int", Name |-> "flags"]>>],
    [Key |-> "EventfdEventID", Params |-> <<[Type |-> "unsigned int", Name |-> "initval"], [Type |-> "int", Name |-> "flags"]>>],
    [Key |-> "FallocateEventID", Params |-> <<[Type |-> "int", Name |-> "fd"], [Type |-> "int", Name |-> "mode"], [Type |-> "off_t", Name |-> "offset"], [Type |-> "off_t", Name |-> "len"]>>],
    [Key |-> "TimerfdSettimeEventID", Params |-> <<[Type |-> "int", Name |-> "fd"], [Type |-> "int", Name |-> "flags"], [Type |-> "const struct itimerspec*", Name |-> "new_value"], [Type |-> "struct itimerspec*", Name |-> "old_value"]>>],
    [Key |-> "TimerfdGettimeEventID", Params |-> <<[Type |-> "int", Name |-> "fd"], [Type |-> "struct itimerspec*", Name |-> "curr_value"]>>],
    [Key |-> "Accept4EventID", Params |-> <<[Type |-> "int", Name |-> "sockfd"], [Type |-> "struct sockaddr*", Name |-> "addr"], [Type |-> "int*", Name |-> "addrlen"], [Type |-> "int", Name |-> "flags"]>>],
    [Key |-> "Signalfd4EventID", Params |-> <<[Type |-> "int", Name |-> "fd"], [Type |-> "const sigset_t*", Name |-> "mask"], [Type |-> "size_t", Name |-> "sizemask"], [Type |-> "int", Name |-> "flags"]>>],
    [Key |-> "Eventfd2EventID", Params |-> <<[Type |-> "unsigned int", Name |-> "initval"], [Type |-> "int", Name |-> "flags"]>>],
    [Key |-> "EpollCreate1EventID", Params |-> <<[Type |-> "int", Name |-> "flags"]>>],
    [Key |-> "Dup3EventID", Params |-> <<[Type |-> "int", Name |-> "oldfd"], [Type |-> "int", Name |-> "newfd"], [Type |-> "int", Name |-> "flags"]>>],
    [Key |-> "Pipe2EventID", Params |-> <<[Type |-> "int[2]", Name |-> "pipefd"], [Type |-> "int", Name |-> "flags"]>>],
    [Key |-> "InotifyInit1EventID", Params |-> <<[Type |-> "int", Name |-> "flags"]>>],
    [Key |-> "PreadvEventID", Params |-> <<[Type |-> "int", Name |-> "fd"], [Type |-> "const struct iovec*", Name |-> "iov"], [Type |-> "unsigned long", Name |-> "iovcnt"], [Type |-> "unsigned long", Name |-> "pos_l"], [Type |-> "unsigned long", Name |-> "pos_h"]>>],
    [Key |-> "PwritevEventID", Params |-> <<[Type |-> "int", Name |-> "fd"], [Type |-> "const struct iovec*", Name |-> "iov"], [Type |-> "unsigned long", Name |-> "iovcnt"], [Type |-> "unsigned long", Name |-> "pos_l"], [Type |-> "unsigned long", Name |-> "pos_h"]>>],
    [Key |-> "RtTgsigqueueinfoEventID", Params |-> <<[Type |-> "pid_t", Name |-> "tgid"], [Type |-> "pid_t", Name |-> "tid"], [Type |-> "int", Name |-> "sig"], [Type |-> "siginfo_t*", Name |-> "info"]>>],
    [Key |-> "PerfEventOpenEventID", Params |-> <<[Type |-> "struct perf_event_attr*", Name |-> "attr"], [Type |-> "pid_t", Name |-> "pid"], [Type |-> "int", Name |-> "cpu"], [Type |-> "int", Name |-> "group_fd"], [Type |-> "unsigned long", Name |-> "flags"]>>],
    [Key |-> "RecvmmsgEventID", Params |-> <<[Type |-> "int", Name |-> "sockfd"], [Type |-> "struct mmsghdr*", Name |-> "msgvec"], [Type |-> "unsigned int", Name |-> "vlen"], [Type |-> "int", Name |-> "flags"], [Type |-> "struct timespec*", Name |-> "timeout"]>>],
    [Key |-> "FanotifyInitEventID", Params |-> <<[Type |-> "unsigned int", Name |-> "flags"], [Type |-> "unsigned int", Name |-> "event_f_flags"]>>],
    [Key |-> "FanotifyMarkEventID", Params |-> <<[Type |-> "int", Name |-> "fanotify_fd"], [Type |-> "unsigned int", Name |-> "flags"], [Type |-> "u64", Name |-> "mask"], [Type |-> "int", Name |-> "dirfd"], [Type |-> "const char*", Name |-> "pathname"]>>],
    [Key |-> "Prlimit64EventID", Params |-> <<[Type |-> "pid_t", Name |-> "pid"], [Type |-> "int", Name |-> "resource"], [Type |-> "const struct rlimit64*", Name |-> "new_limit"], [Type |-> "struct rlimit64*", Name |-> "old_limit"]>>],
    [Key |-> "NameToHandleAtEventID", Params |-> <<[Type |-> "int", Name |-> "dirfd"], [Type |-> "const char*", Name |-> "pathname"], [Type |-> "struct file_handle*", Name |-> "handle"], [Type |-> "int*", Name |-> "mount_id"], [Type |-> "int", Name |-> "flags"]>>],
    [Key |-> "OpenByHandleAtEventID", Params |-> <<[Type |-> "int", Name |-> "mount_fd"], [Type |-> "struct file_handle*", Name |-> "handle"], [Type |-> "int", Name |-> "flags"]>>],
    [Key |-> "ClockAdjtimeEventID", Params |-> <<[Type |-> "const clockid_t", Name |-> "clk_id"], [Type |-> "struct timex*", Name |-> "buf"]>>],
    [Key |-> "SyncfsEventID", Params |-> <<[Type |-> "int", Name |-> "fd"]>>],
    [Key |-> "SendmmsgEventID", Params |-> <<[Type |-> "int", Name |-> "sockfd"], [Type |-> "struct mmsghdr*", Name |-> "msgvec"], [Type |-> "unsigned int", Name |-> "vlen"], [Type |-> "int", Name |-> "flags"]>>],
    [Key |-> "SetnsEventID", Params |-> <<[Type |-> "int", Name |-> "fd"], [Type |-> "int", Name |-> "nstype"]>>],
    [Key |-> "GetcpuEventID", Params |-> <<[Type |-> "unsigned int*", Name |-> "cpu"], [Type |-> "unsigned int*", Name |-> "node"], [Type |-> "struct getcpu_cache*", Name |-> "tcache"]>>],
    [Key |-> "ProcessVmReadvEventID", Params |-> <<[Type |-> "pid_t", Name |-> "pid"], [Type |-> "const struct iovec*", Name |-> "local_iov"], [Type |-> "unsigned long", Name |-> "liovcnt"], [Type |-> "const struct iovec*", Name |-> "remote_iov"], [Type |-> "unsigned long", Name |-> "riovcnt"], [Type |-> "unsigned long", Name |-> "flags"]>>],
    [Key |-> "ProcessVmWritevEventID", Params |-> <<[Type |-> "pid_t", Name |-> "pid"], [Type |-> "const struct iovec*", Name |-> "local_iov"], [Type |-> "unsigned long", Name |-> "liovcnt"], [Type |-> "const struct iovec*", Name |-> "remote_iov"], [Type |-> "unsigned long", Name |-> "riovcnt"], [Type |-> "unsigned long", Name |-> "flags"]>>],
    [Key |-> "KcmpEventID", Params |-> <<[Type |-> "pid_t", Name |-> "pid1"], [Type |-> "pid_t", Name |-> "pid2"], [Type |-> "int", Name |-> "type"], [Type |-> "unsigned long", Name |-> "idx1"], [Type |-> "unsigned long", Name |-> "idx2"]>>],
    [Key |-> "FinitModuleEventID", Params |-> <<[Type |-> "int", Name |-> "fd"], [Type |-> "const char*", Name |-> "param_values"], [Type |-> "int", Name |-> "flags"]>>],
    [Key |-> "SchedSetattrEventID", Params |-> <<[Type |-> "pid_t", Name |-> "pid"], [Type |-> "struct sched_attr*", Name |-> "attr"], [Type |-> "unsigned int", Name |-> "flags"]>>],
    [Key |-> "SchedGetattrEventID", Params |-> <<[Type |-> "pid_t", Name |-> "pid"], [Type |-> "struct sched_attr*", Name |-> "attr"], [Type |-> "unsigned int", Name |-> "size"], [Type |-> "unsigned int", Name |-> "flags"]>>],
    [Key |-> "Renameat2EventID", Params |-> <<[Type |-> "int", Name |-> "olddirfd"], [Type |-> "const char*", Name |-> "oldpath"], [Type |-> "int", Name |-> "newdirfd"], [Type |-> "const char*", Name |-> "newpath"], [Type |-> "unsigned int", Name |-> "flags"]>>],
    [Key |-> "SeccompEventID", Params |-> <<[Type |-> "unsigned int", Name |-> "operation"], [Type |-> "unsigned int", Name |-> "flags"], [Type |-> "const void*", Name |-> "args"]>>],
    [Key |-> "GetrandomEventID", Params |-> <<[Type |-> "void*", Name |-> "buf"], [Type |-> "size_t", Name |-> "buflen"], [Type |-> "unsigned int", Name |-> "flags"]>>],
    [Key |-> "MemfdCreateEventID", Params |-> <<[Type |-> "const char*", Name |-> "name"], [Type |-> "unsigned int", Name |-> "flags"]>>],
    [Key |-> "KexecFileLoadEventID", Params |-> <<[Type |-> "int", Name |-> "kernel_fd"], [Type |-> "int", Name |-> "initrd_fd"], [Type |-> "unsigned long", Name |-> "cmdline_len"], [Type |-> "const char*", Name |-> "cmdline"], [Type |-> "unsigned long", Name |-> "flags"]>>],
    [Key |-> "BpfEventID", Params |-> <<[Type |-> "int", Name |-> "cmd"], [Type |-> "union bpf_attr*", Name |-> "attr"], [Type |-> "unsigned int", Name |-> "size"]>>],
    [Key |-> "ExecveatEventID", Params |-> <<[Type |-> "int", Name |-> "dirfd"], [Type |-> "const char*", Name |-> "pathname"], [Type |-> "const char*const*", Name |-> "argv"], [Type |-> "const char*const*", Name |-> "envp"], [Type |-> "int", Name |-> "flags"]>>],
    [Key |-> "UserfaultfdEventID", Params |-> <<[Type |-> "int", Name |-> "flags"]>>],
    [Key |-> "MembarrierEventID", Params |-> <<[Type |-> "int", Name |-> "cmd"], [Type |-> "int", Name |-> "flags"]>>],
    [Key |-> "Mlock2EventID", Params |-> <<[Type |-> "const void*", Name |-> "addr"], [Type |-> "size_t", Name |-> "len"], [Type |-> "int", Name |-> "flags"]>>],
    [Key |-> "CopyFileRangeEventID", Params |-> <<[Type |-> "int", Name |-> "fd_in"], [Type |-> "off_t*", Name |-> "off_in"], [Type |-> "int", Name |-> "fd_out"], [Type |-> "off_t*", Name |-> "off_out"], [Type |-> "size_t", Name |-> "len"], [Type |-> "unsigned int", Name |-> "flags"]>>],
    [Key |-> "Preadv2EventID", Params |-> <<[Type |-> "int", Name |-> "fd"], [Type |-> "const struct iovec*", Name |-> "iov"], [Type |-> "unsigned long", Name |-> "iovcnt"], [Type |-> "unsigned long", Name |-> "pos_l"], [Type |-> "unsigned long", Name |-> "pos_h"], [Type |-> "int", Name |-> "flags"]>>],
    [Key |-> "Pwritev2EventID", Params |-> <<[Type |-> "int", Name |-> "fd"], [Type |-> "const struct iovec*", Name |-> "iov"], [Type |-> "unsigned long", Name |-> "iovcnt"], [Type |-> "unsigned long", Name |-> "pos_l"], [Type |-> "unsigned long", Name |-> "pos_h"], [Type |-> "int", Name |-> "flags"]>>],
    [Key |-> "PkeyMprotectEventID", Params |-> <<[Type |-> "void*", Name |-> "addr"], [Type |-> "size_t", Name |-> "len"], [Type |-> "int", Name |-> "prot"], [Type |-> "int", Name |-> "pkey"]>>],
    [Key |-> "PkeyAllocEventID", Params |-> <<[Type |-> "unsigned int", Name |-> "flags"], [Type |-> "unsigned long", Name |-> "access_rights"]>>],
    [Key |-> "PkeyFreeEventID", Params |-> <<[Type |-> "int", Name |-> "pkey"]>>],
    [Key |-> "StatxEventID", Params |-> <<[Type |-> "int", Name |-> "dirfd"], [Type |-> "const char*", Name |-> "pathname"], [Type |-> "int", Name |-> "flags"], [Type |-> "unsigned int", Name |-> "mask"], [Type |-> "struct statx*", Name |-> "statxbuf"]>>],
    [Key |-> "IoPgeteventsEventID", Params |-> <<[Type |-> "aio_context_t", Name |-> "ctx_id"], [Type |-> "long", Name |-> "min_nr"], [Type |-> "long", Name |-> "nr"], [Type |-> "struct io_event*", Name |-> "events"], [Type |-> "struct timespec*", Name |-> "timeout"], [Type |-> "const struct __aio_sigset*", Name |-> "usig"]>>],
    [Key |-> "RseqEventID", Params |-> <<[Type |-> "struct rseq*", Name |-> "rseq"], [Type |-> "u32", Name |-> "rseq_len"], [Type |-> "int", Name |-> "flags"], [Type |-> "u32", Name |-> "sig"]>>],
    [Key |-> "PidfdSendSignalEventID", Params |-> <<[Type |-> "int", Name |-> "pidfd"], [Type |-> "int", Name |-> "sig"], [Type |-> "siginfo_t*", Name |-> "info"], [Type |-> "unsigned int", Name |-> "flags"]>>],
    [Key |-> "IoUringSetupEventID", Params |-> <<[Type |-> "unsigned int", Name |-> "entries"], [Type |-> "struct io_uring_params*", Name |-> "p"]>>],
    [Key |-> "IoUringEnterEventID", Params |-> <<[Type |-> "unsigned int", Name |-> "fd"], [Type |-> "unsigned int", Name |-> "to_submit"], [Type |-> "unsigned int", Name |-> "min_complete"], [Type |-> "unsigned int", Name |-> "flags"], [Type |-> "sigset_t*", Name |-> "sig"]>>],
    [Key |-> "IoUringRegisterEventID", Params |-> <<[Type |-> "unsigned int", Name |-> "fd"], [Type |-> "unsigned int", Name |-> "opcode"], [Type |-> "void*", Name |-> "arg"], [Type |-> "unsigned int", Name |-> "nr_args"]>>],
    [Key |-> "OpenTreeEventID", Params |-> <<[Type |-> "int", Name |-> "dfd"], [Type |-> "const char*", Name |-> "filename"], [Type |-> "unsigned int", Name |-> "flags"]>>],
    [Key |-> "MoveMountEventID", Params |-> <<[Type |-> "int", Name |-> "from_dfd"], [Type |-> "const char*", Name |-> "from_path"], [Type |-> "int", Name |-> "to_dfd"], [Type |-> "const char*", Name |-> "to_path"], [Type |-> "unsigned int", Name |-> "flags"]>>],
    [Key |-> "FsopenEventID", Params |-> <<[Type |-> "const char*", Name |-> "fsname"], [Type |-> "unsigned int", Name |-> "flags"]>>],
    [Key |-> "FsconfigEventID", Params |-> <<[Type |-> "int*", Name |-> "fs_fd"], [Type |-> "unsigned int", Name |-> "cmd"], [Type |-> "const char*", Name |-> "key"], [Type |-> "const void*", Name |-> "value"], [Type |-> "int", Name |-> "aux"]>>],
    [Key |-> "FsmountEventID", Params |-> <<[Type |-> "int", Name |-> "fsfd"], [Type |-> "unsigned int", Name |-> "flags"], [Type |-> "unsigned int", Name |-> "ms_flags"]>>],
    [Key |-> "FspickEventID", Params |-> <<[Type |-> "int", Name |-> "dirfd"], [Type |-> "const char*", Name |-> "pathname"], [Type |-> "unsigned int", Name |-> "flags"]>>],
    [Key |-> "PidfdOpenEventID", Params |-> <<[Type |-> "pid_t", Name |-> "pid"], [Type |-> "unsigned int", Name |-> "flags"]>>],
    [Key |-> "Clone3EventID", Params |-> <<[Type |-> "struct clone_args*", Name |-> "cl_args"], [Type |-> "size_t", Name |-> "size"]>>],
    [Key |-> "CloseRangeEventID", Params |-> <<[Type |-> "unsigned int", Name |-> "first"], [Type |-> "unsigned int", Name |-> "last"]>>],
    [Key |-> "Openat2EventID", Params |-> <<[Type |-> "int", Name |-> "dirfd"], [Type |-> "const char*", Name |-> "pathname"], [Type |-> "struct open_how*", Name |-> "how"], [Type |-> "size_t", Name |-> "size"]>>],
    [Key |-> "PidfdGetfdEventID", Params |-> <<[Type |-> "int", Name |-> "pidfd"], [Type |-> "int", Name |-> "targetfd"], [Type |-> "unsigned int", Name |-> "flags"]>>],
    [Key |-> "Faccessat2EventID", Params |-> <<[Type |-> "int", Name |-> "fd"], [Type |-> "const char*", Name |-> "path"], [Type |-> "int", Name |-> "mode"], [Type |-> "int", Name |-> "flag"]>>],
    [Key |-> "ProcessMadviseEventID", Params |-> <<[Type |-> "int", Name |-> "pidfd"], [Type |-> "void*", Name |-> "addr"], [Type |-> "size_t", Name |-> "length"], [Type |-> "int", Name |-> "advice"], [Type |-> "unsigned long", Name |-> "flags"]>>],
    [Key |-> "EpollPwait2EventID", Params |-> <<[Type |-> "int", Name |-> "fd"], [Type |-> "struct epoll_event*", Name |-> "events"], [Type |-> "int", Name |-> "maxevents"], [Type |-> "const struct timespec*", Name |-> "timeout"], [Type |-> "const sigset_t*", Name |-> "sigset"]>>],
    [Key |-> "SysEnterEventID", Params |-> <<[Type |-> "int", Name |-> "syscall"]>>],
    [Key |-> "SysExitEventID", Params |-> <<[Type |-> "int", Name |-> "syscall"]>>],
    [Key |-> "SchedProcessForkEventID", Params |-> <<[Type |-> "int", Name |-> "parent_tid"], [Type |-> "int", Name |-> "parent_ns_tid"], [Type |-> "int", Name |-> "child_tid"], [Type |-> "int", Name |-> "child_ns_tid"]>>],
    [Key |-> "SchedProcessExecEventID", Params |-> <<[Type |-> "const char*", Name |-> "cmdpath"], [Type |-> "const char*", Name |-> "pathname"], [Type |-> "const char**", Name |-> "argv"], [Type |-> "const char**", Name |-> "env"], [Type |-> "dev_t", Name |-> "dev"], [Type |-> "unsigned long", Name |-> "inode"], [Type |-> "int", Name |-> "invoked_from_kernel"], [Type |-> "unsigned long", Name |-> "ctime"]>>],
    [Key |-> "SchedProcessExitEventID", Params |-> <<[Type |-> "long", Name |-> "exit_code"]>>],
    [Key |-> "SchedSwitchEventID", Params |-> <<[Type |-> "int", Name |-> "cpu"], [Type |-> "int", Name |-> "prev_tid"], [Type |-> "const char*", Name |-> "prev_comm"], [Type |-> "int", Name |-> "next_tid"], [Type |-> "const char*", Name |-> "next_comm"]>>],
    [Key |-> "DoExitEventID", Params |-> <<>>],
    [Key |-> "CapCapableEventID", Params |-> <<[Type |-> "int", Name |-> "cap"], [Type |-> "int", Name |-> "syscall"]>>],
    [Key |-> "VfsWriteEventID", Params |-> <<[Type |-> "const char*", Name |-> "pathname"], [Type |-> "dev_t", Name |-> "dev"], [Type |-> "unsigned long", Name |-> "inode"], [Type |-> "size_t", Name |-> "count"], [Type |-> "off_t", Name |-> "pos"]>>],
    [Key |-> "VfsWritevEventID", Params |-> <<[Type |-> "const char*", Name |-> "pathname"], [Type |-> "dev_t", Name |-> "dev"], [Type |-> "unsigned long", Name |-> "inode"], [Type |-> "unsigned long", Name |-> "vlen"], [Type |-> "off_t", Name |-> "pos"]>>],
    [Key |-> "MemProtAlertEventID", Params |-> <<[Type |-> "u32", Name |-> "alert"]>>],
    [Key |-> "CommitCredsEventID", Params |-> <<[Type |-> "slim_cred_t", Name |-> "old_cred"], [Type |-> "slim_cred_t", Name |-> "new_cred"], [Type |-> "int", Name |-> "syscall"]>>],
    [Key |-> "SwitchTaskNSEventID", Params |-> <<[Type |-> "pid_t", Name |-> "pid"], [Type |-> "u32", Name |-> "new_mnt"], [Type |-> "u32", Name |-> "new_pid"], [Type |-> "u32", Name |-> "new_uts"], [Type |-> "u32", Name |-> "new_ipc"], [Type |-> "u32", Name |-> "new_net"], [Type |-> "u32", Name |-> "new_cgroup"]>>],
    [Key |-> "MagicWriteEventID", Params |-> <<[Type |-> "const char*", Name |-> "pathname"], [Type |-> "bytes", Name |-> "bytes"], [Type |-> "dev_t", Name |-> "dev"], [Type |-> "unsigned long", Name |-> "inode"]>>],
    [Key |-> "CgroupAttachTaskEventID", Params |-> <<[Type |-> "const char*", Name |-> "cgroup_path"], [Type |-> "const char*", Name |-> "comm"], [Type |-> "pid_t", Name |-> "pid"]>>],
    [Key |-> "CgroupMkdirEventID", Params |-> <<[Type |-> "u64", Name |-> "cgroup_id"], [Type |-> "const char*", Name |-> "cgroup_path"]>>],
    [Key |-> "CgroupRmdirEventID", Params |-> <<[Type |-> "u64", Name |-> "cgroup_id"], [Type |-> "const char*", Name |-> "cgroup_path"]>>],
    [Key |-> "SecurityBprmCheckEventID", Params |-> <<[Type |-> "const char*", Name |-> "pathname"], [Type |-> "dev_t", Name |-> "dev"], [Type |-> "unsigned long", Name |-> "inode"]>>],
    [Key |-> "SecurityFileOpenEventID", Params |-> <<[Type |-> "const char*", Name |-> "pathname"], [Type |-> "int", Name |-> "flags"], [Type |-> "dev_t", Name |-> "dev"], [Type |-> "unsigned long", Name |-> "inode"], [Type |-> "int", Name |-> "syscall"]>>],
    [Key |-> "SecurityInodeUnlinkEventID", Params |-> <<[Type |-> "const char*", Name |-> "pathname"]>>],
    [Key |-> "SecuritySocketCreateEventID", Params |-> <<[Type |-> "int", Name |-> "family"], [Type |-> "int", Name |-> "type"], [Type |-> "int", Name |-> "protocol"], [Type |-> "int", Name |-> "kern"]>>],
    [Key |-> "SecuritySocketListenEventID", Params |-> <<[Type |-> "int", Name |-> "sockfd"], [Type |-> "struct sockaddr*", Name |-> "local_addr"], [Type |-> "int", Name |-> "backlog"]>>],
    [Key |-> "SecuritySocketConnectEventID", Params |-> <<[Type |-> "int", Name |-> "sockfd"], [Type |-> "struct sockaddr*", Name |-> "remote_addr"]>>],
    [Key |-> "SecuritySocketAcceptEventID", Params |-> <<[Type |-> "int", Name |-> "sockfd"], [Type |-> "struct sockaddr*", Name |-> "local_addr"]>>],
    [Key |-> "SecuritySocketBindEventID", Params |-> <<[Type |-> "int", Name |-> "sockfd"], [Type |-> "struct sockaddr*", Name |-> "local_addr"]>>],
    [Key |-> "SecuritySbMountEventID", Params |-> <<[Type |-> "const char*", Name |-> "dev_name"], [Type |-> "const char*", Name |-> "path"], [Type |-> "const char*", Name |-> "type"], [Type |-> "unsigned long", Name |-> "flags"]>>],
    [Key |-> "SecurityBPFEventID", Params |-> <<[Type |-> "int", Name |-> "cmd"]>>],
    [Key |-> "SecurityBPFMapEventID", Params |-> <<[Type |-> "unsigned int", Name |-> "map_id"], [Type |-> "const char*", Name |-> "map_name"]>>],
    [Key |-> "SecurityKernelReadFileEventID", Params |-> <<[Type |-> "const char*", Name |-> "pathname"], [Type |-> "dev_t", Name |-> "dev"], [Type |-> "unsigned long", Name |-> "inode"], [Type |-> "int", Name |-> "type"]>>],
    [Key |-> "SecurityPostReadFileEventID", Params |-> <<[Type |-> "const char*", Name |-> "pathname"], [Type |-> "long", Name |-> "size"], [Type |-> "int", Name |-> "type"]>>],
    [Key |-> "SecurityInodeMknodEventID", Params |-> <<[Type |-> "const char*", Name |-> "file_name"], [Type |-> "umode_t", Name |-> "mode"], [Type |-> "dev_t", Name |-> "dev"]>>],
    [Key |-> "InitNamespacesEventID", Params |-> <<[Type |-> "u32", Name |-> "cgroup"], [Type |-> "u32", Name |-> "ipc"], [Type |-> "u32", Name |-> "mnt"], [Type |-> "u32", Name |-> "net"], [Type |-> "u32", Name |-> "pid"], [Type |-> "u32", Name |-> "pid_for_children"], [Type |-> "u32", Name |-> "time"], [Type |-> "u32", Name |-> "time_for_children"], [Type |-> "u32", Name |-> "user"], [Type |-> "u32", Name |-> "uts"]>>],
    [Key |-> "SocketDupEventID", Params |-> <<[Type |-> "int", Name |-> "oldfd"], [Type |-> "int", Name |-> "newfd"], [Type |-> "struct sockaddr*", Name |-> "remote_addr"]>>]
  >>

(***************************************************************************)
(* Event identifiers.                                                      *)
(***************************************************************************)
Range(seq) == {seq[i] : i \in 1..Len(seq)}
IndexOf(seq, x) == CHOOSE i \in 1..Len(seq) : seq[i] = x

\* The constants of the syscall band are declared per architecture, outside
\* the files at hand: they are the keys of EventsIDToEvent that neither const
\* block above declares, numbered here as a contiguous band from 0, in the
\* order of the table.
SyscallEventIDs ==
  LET keys == [i \in 1..Len(EventsIDToEventRows) |-> EventsIDToEventRows[i].Key]
  IN  SelectSeq(keys, LAMBDA k : k \notin Range(NonSyscallEventIDs) \cup Range(UserSpaceEventIDs))

\* Faulty variant of EventIDValue: the block of the user-space events
\* starts at the base of the kernel events.
EventIDValue_UserSpaceAtKernelBase(sym) ==
  IF sym \in Range(NonSyscallEventIDs)
    THEN NonSyscallEventIDBase + IndexOf(NonSyscallEventIDs, sym) - 1
  ELSE IF sym \in Range(UserSpaceEventIDs)
    THEN NonSyscallEventIDBase + IndexOf(UserSpaceEventIDs, sym) - 1
  ELSE IndexOf(SyscallEventIDs, sym) - 1

EventIDValue(sym) ==
  IF sym \in Range(NonSyscallEventIDs)
    THEN NonSyscallEventIDBase + IndexOf(NonSyscallEventIDs, sym) - 1
  ELSE IF sym \in Range(UserSpaceEventIDs)
    THEN UserSpaceEventIDBase + IndexOf(UserSpaceEventIDs, sym) - 1
  ELSE IndexOf(SyscallEventIDs, sym) - 1

InitNamespacesEventID == EventIDValue("InitNamespacesEventID")
\* Faulty variant of MaxEventID: the bound is the last event, not one past it.
MaxEventID_LastEvent == EventIDValue("SocketDupEventID")
MaxEventID == EventIDValue("MaxEventID")

(***************************************************************************)
(* The registry tables as maps from identifier to row.                     *)
(***************************************************************************)
\* type EventConfig struct
EventConfig(row) ==
  [ID |-> EventIDValue(row.ID), ID32Bit |-> row.ID32Bit, Name |-> row.Name,
   Probes |-> row.Probes, EssentialEvent |-> row.EssentialEvent, Sets |-> row.Sets]

EventKeyValues == [i \in 1..Len(EventsIDToEventRows) |-> EventIDValue(EventsIDToEventRows[i].Key)]
ParamsKeyValues == [i \in 1..Len(EventsIDToParamsRows) |-> EventIDValue(EventsIDToParamsRows[i].Key)]

\* the row of the literal of EventsIDToEvent, of EventsIDToParams, with key id
EventRow(id) == EventsIDToEventRows[CHOOSE i \in 1..Len(EventKeyValues) : EventKeyValues[i] = id]
ParamsRow(id) == EventsIDToParamsRows[CHOOSE i \in 1..Len(ParamsKeyValues) : ParamsKeyValues[i] = id]

\* Faulty variant of EventsIDToEvent: magic_write, which attaches nothing,
\* is marked essential.
EventsIDToEventLiteral_EssentialWithoutProbes ==
  [id \in Range(EventKeyValues) |->
     IF EventRow(id).Key = "MagicWriteEventID"
       THEN [EventConfig(EventRow(id)) EXCEPT !.EssentialEvent = TRUE]
       ELSE EventConfig(EventRow(id))]

\* Faulty variant of EventsIDToEvent: the row of init_namespaces, copied
\* from the row of socket_dup, keeps its name.
EventsIDToEventLiteral_NameCopied ==
  [id \in Range(EventKeyValues) |->
     IF EventRow(id).Key = "InitNamespacesEventID"
       THEN [EventConfig(EventRow(id)) EXCEPT !.Name = "socket_dup"]
       ELSE EventConfig(EventRow(id))]

\* Faulty variant of EventsIDToEvent: the row of read leaves ID32Bit out.
EventsIDToEventLiteral_ID32BitOmitted ==
  [id \in Range(EventKeyValues) |->
     IF EventRow(id).Key = "ReadEventID"
       THEN [EventConfig(EventRow(id)) EXCEPT !.ID32Bit = ""]
       ELSE EventConfig(EventRow(id))]

\* Faulty variant of EventsIDToEvent: the row of socket_dup, copied from
\* the row of magic_write, keeps its ID.
EventsIDToEventLiteral_IDCopied ==
  [id \in Range(EventKeyValues) |->
     IF EventRow(id).Key = "SocketDupEventID"
       THEN [EventConfig(EventRow(id)) EXCEPT !.ID = EventIDValue("MagicWriteEventID")]
       ELSE EventConfig(EventRow(id))]

\* Faulty variant of EventsIDToEvent: the row of read is in the sets fs
\* and fs_read_write only.
EventsIDToEventLiteral_SyscallsSetForgotten ==
  [id \in Range(EventKeyValues) |->
     IF EventRow(id).Key = "ReadEventID"
       THEN [EventConfig(EventRow(id)) EXCEPT !.Sets = <<"fs", "fs_read_write">>]
       ELSE EventConfig(EventRow(id))]

\* Faulty variant of EventsIDToEvent: init_namespaces, which attaches
\* nothing, is put into the set default.
EventsIDToEventLiteral_ZeroProbeInDefault ==
  [id \in Range(EventKeyValues) |->
     IF EventRow(id).Key = "InitNamespacesEventID"
       THEN [EventConfig(EventRow(id)) EXCEPT !.Sets = <<"default">>]
       ELSE EventConfig(EventRow(id))]

\* Faulty variant of EventsIDToEvent: the row of sys_enter carries the
\* ID32Bit of a syscall.
EventsIDToEventLiteral_KernelEventWithID32Bit ==
  [id \in Range(EventKeyValues) |->
     IF EventRow(id).Key = "SysEnterEventID"
       THEN [EventConfig(EventRow(id)) EXCEPT !.ID32Bit = "sys32read"]
       ELSE EventConfig(EventRow(id))]

\* var EventsIDToEvent = map[int32]EventConfig{...}
EventsIDToEventLiteral ==
  [id \in Range(EventKeyValues) |->
     EventConfig(EventsIDToEventRows[CHOOSE i \in 1..Len(EventKeyValues) : EventKeyValues[i] = id])]

\* Faulty variant of EventsIDToParams: in the schema of read, the second
\* argument is named as the first.
EventsIDToParamsLiteral_ArgumentNameRepeated ==
  [id \in Range(ParamsKeyValues) |->
     IF ParamsRow(id).Key = "ReadEventID"
       THEN [ParamsRow(id).Params EXCEPT ![2] = [Type |-> @.Type, Name |-> ParamsRow(id).Params[1].Name]]
       ELSE ParamsRow(id).Params]

\* Faulty variant of EventsIDToParams: a schema is declared under
\* MaxEventID, which no descriptor has.
EventsIDToParamsLiteral_SchemaWithoutEvent ==
  [id \in Range(ParamsKeyValues) \cup {EventIDValue("MaxEventID")} |->
     IF id \in Range(ParamsKeyValues) THEN ParamsRow(id).Params
     ELSE <<[Type |-> "int", Name |-> "fd"]>>]

\* Faulty variant of EventsIDToParams: the schema of init_namespaces names
\* the mount and the network namespace in full.
EventsIDToParamsLiteral_KindsSpelledOut ==
  [id \in Range(ParamsKeyValues) |->
     IF ParamsRow(id).Key = "InitNamespacesEventID"
       THEN [i \in 1..Len(ParamsRow(id).Params) |->
               [Type |-> ParamsRow(id).Params[i].Type,
                Name |-> CASE ParamsRow(id).Params[i].Name = "mnt" -> "mount"
                           [] ParamsRow(id).Params[i].Name = "net" -> "network"
                           [] OTHER -> ParamsRow(id).Params[i].Name]]
       ELSE ParamsRow(id).Params]

\* Faulty variant of EventsIDToParams: the schema of read declares the
\* buffer before the descriptor.
EventsIDToParamsLiteral_ReadBufferFirst ==
  [id \in Range(ParamsKeyValues) |->
     IF ParamsRow(id).Key = "ReadEventID"
       THEN <<ParamsRow(id).Params[2], ParamsRow(id).Params[1], ParamsRow(id).Params[3]>>
       ELSE ParamsRow(id).Params]

\* var EventsIDToParams = map[int32][]external.ArgMeta{...}
EventsIDToParamsLiteral ==
  [id \in Range(ParamsKeyValues) |->
     EventsIDToParamsRows[CHOOSE i \in 1..Len(ParamsKeyValues) : ParamsKeyValues[i] = id].Params]

\* the zero values a Go map read yields for a key that is not in the map
ZeroEventConfig ==
  [ID |-> 0, ID32Bit |-> "", Name |-> "", Probes |-> <<>>, EssentialEvent |-> FALSE, Sets |-> <<>>]
EventLookup(events, id) == IF id \in DOMAIN events THEN events[id] ELSE ZeroEventConfig
ParamsLookup(params, id) == IF id \in DOMAIN params THEN params[id] ELSE <<>>

(***************************************************************************)
(* uint32 arithmetic on two 16-bit limbs.                                  *)
(***************************************************************************)
Limb == 2^16
U32(hi, lo) == [hi |-> hi, lo |-> lo]
Zero32 == U32(0, 0)
\* maxVal := uint64(1)<<uint(bitSize) - 1, for bitSize 32
MaxUint32 == U32(Limb - 1, Limb - 1)

(***************************************************************************)
(* The string functions fetchInitNamespaces applies to a link target.     *)
(***************************************************************************)
Digits == {"0", "1", "2", "3", "4", "5", "6", "7", "8", "9"}
DigitValue(c) ==
  CASE c = "0" -> 0 [] c = "1" -> 1 [] c = "2" -> 2 [] c = "3" -> 3 [] c = "4" -> 4
    [] c = "5" -> 5 [] c = "6" -> 6 [] c = "7" -> 7 [] c = "8" -> 8 [] c = "9" -> 9

\* regexp.MustCompile(":[[[:digit:]]*]"): a colon, then any number of
\* characters of the class [[[:digit:]] (an opening bracket or a decimal
\* digit), then a closing bracket.
RegClass(c) == c = "[" \/ c \in Digits

\* the last position of the longest run of class characters starting at i
\* (i - 1 when s[i] is no class character)
RECURSIVE RegClassRunEnd(_, _)
RegClassRunEnd(s, i) ==
  IF i <= Len(s) /\ RegClass(s[i]) THEN RegClassRunEnd(s, i + 1) ELSE i - 1

\* the expression matches at i: no class character is a closing bracket, so
\* the run must be the longest one and a closing bracket must follow it
RegMatchAt(s, i) ==
  /\ s[i] = ":"
  /\ LET j == RegClassRunEnd(s, i + 1)
     IN  j + 1 <= Len(s) /\ s[j + 1] = "]"

\* namespaceValueReg.FindString: the leftmost match, "" when there is none
FindString(s) ==
  LET starts == {i \in 1..Len(s) : RegMatchAt(s, i)}
  IN  IF starts = {} THEN <<>>
      ELSE LET i == CHOOSE k \in starts : \A m \in starts : k <= m
           IN  SubSeq(s, i, RegClassRunEnd(s, i + 1) + 1)

RECURSIVE TrimLeft(_, _)
TrimLeft(s, cutset) ==
  IF s # <<>> /\ Head(s) \in cutset THEN TrimLeft(Tail(s), cutset) ELSE s

RECURSIVE TrimRight(_, _)
TrimRight(s, cutset) ==
  IF s # <<>> /\ s[Len(s)] \in cutset THEN TrimRight(SubSeq(s, 1, Len(s) - 1), cutset) ELSE s

\* Faulty variant of Trim, as strings.TrimLeft would behave: the trailing
\* characters of cutset stay.
Trim_LeftOnly(s, cutset) == TrimLeft(s, cutset)

\* strings.Trim(s, cutset): s without its leading and trailing characters of cutset
Trim(s, cutset) == TrimRight(TrimLeft(s, cutset), cutset)

\* one step of ParseUint's loop, n*10 + d on limbs; hi reaching Limb is n1 > maxVal
MulAdd10(n, d) ==
  LET lo1 == n.lo * 10 + d
  IN  U32(n.hi * 10 + lo1 \div Limb, lo1 % Limb)

RECURSIVE ParseUintFrom(_, _, _)
ParseUintFrom(s, i, n) ==
  IF i > Len(s) THEN [val |-> n, err |-> "nil"]
  ELSE IF s[i] \notin Digits THEN [val |-> Zero32, err |-> "ErrSyntax"]
  ELSE LET n1 == MulAdd10(n, DigitValue(s[i]))
       IN  IF n1.hi >= Limb THEN [val |-> MaxUint32, err |-> "ErrRange"]
           ELSE ParseUintFrom(s, i + 1, n1)

\* strconv.ParseUint(s, 10, 32): the value and the error; 0 with a syntax
\* error, the greatest 32-bit value with a range error
ParseUint(s) ==
  IF s = <<>> THEN [val |-> Zero32, err |-> "ErrSyntax"] ELSE ParseUintFrom(s, 1, Zero32)

(***************************************************************************)
(* The namespace directory /proc/1/ns, as the synthesizer sees it.         *)
(***************************************************************************)
\* names of directory entries: two argument names of the init_namespaces
\* schema and one name that is no argument name
DirNames == {"net", "pid", "self"}

\* link targets a directory entry may have
LinkTargets ==
  { <<"p","i","d",":","[","1","2","]">>,
    <<"n","e","t",":","[","4","0","2","6","5","3","1","8","4","0","]">>,
    <<"u","t","s",":","[","4","2","9","4","9","6","7","2","9","5","]">>,
    <<"n","e","t",":","[","4","2","9","4","9","6","7","2","9","6","]">>,
    <<"p","i","d",":","1","2","]">>,
    <<"p","i","d",":","[","[","1","2","]">>,
    <<"p","i","d",":","[","1","[","2","]">>,
    <<"p","i","d",":","[","]">> }

\* a directory entry: a symbolic link with its target, or an entry that is
\* no symbolic link (os.Readlink fails on it)
Link(target) == [isLink |-> TRUE, target |-> target]
Unresolvable == [isLink |-> FALSE, target |-> <<>>]
Entries == {Link(t) : t \in LinkTargets} \cup {Unresolvable}

Directories ==
  UNION {[S -> Entries] : S \in {T \in SUBSET DirNames : Cardinality(T) <= MaxEntries}}

\* the orders in which the entries of a directory can be enumerated
Orders(S) ==
  {o \in [1..Cardinality(S) -> S] : \A i, j \in 1..Cardinality(S) : o[i] = o[j] => i = j}

VARIABLES
  dir,               \* the entries of /proc/1/ns: name -> entry
  readable,          \* whether /proc/1/ns can be opened for reading (ioutil.ReadDir fails at its open otherwise)
  searchable,        \* whether the entries of /proc/1/ns can be reached (lstat and os.Readlink fail otherwise)
  clock,             \* time.Now()
  eventsWritten,     \* the writes to EventsIDToEvent since initialization: id -> row
  paramsWritten,     \* the writes to EventsIDToParams since initialization: id -> schema
  prev,              \* what the call of CreateInitNamespacesEvent before the last returned
  last,              \* what the last call of CreateInitNamespacesEvent returned
                     \* (both since the directory last changed after a return)
  returned,          \* what the last lookup in a registry table gave, and to which reader
  first,             \* id -> the schema the first lookup of id in EventsIDToParams gave
  used,              \* the last two constants of an enumeration that were evaluated
  run,               \* the call of CreateInitNamespacesEvent under way: where it is, its
                     \* local variables, and what it has done
  trip               \* the last buffer written and read back through a schema

readerVars == <<returned, first, used>>
stepVars == <<run, trip>>
vars == <<dir, readable, searchable, clock, eventsWritten, paramsWritten, prev, last, returned, first, used,
          run, trip>>

\* The package variables EventsIDToEvent and EventsIDToParams: the literals,
\* overridden by what has been written since.  (The tables hold hundreds of
\* rows; the state records the writes and the tables are derived from them.)
NoWrites == [id \in {} |-> <<>>]
Overridden(literal, written) ==
  IF DOMAIN written = {} THEN literal
  ELSE
  [id \in DOMAIN literal \cup DOMAIN written |->
     IF id \in DOMAIN written THEN written[id] ELSE literal[id]]
EventsIDToEvent == Overridden(EventsIDToEventLiteral, eventsWritten)
EventsIDToParams == Overridden(EventsIDToParamsLiteral, paramsWritten)

NoCall == [made |-> FALSE]
NoLookup == [made |-> FALSE]
NoSchemas == [id \in {} |-> <<>>]
NoUse == [made |-> FALSE]
NoRun ==
  [pc |-> "idle", opened |-> FALSE, names |-> {}, examined |-> {}, list |-> {}, failed |-> FALSE,
   moved |-> FALSE, lstats |-> 0,
   namespacesLinks |-> <<>>, i |-> 0, initNamespacesMap |-> [n \in {} |-> Zero32],
   readDirs |-> 0, readlinks |-> [n \in {} |-> 0], steps |-> 0, still |-> TRUE,
   event |-> [made |-> FALSE]]
NoTrip == [made |-> FALSE]

(***************************************************************************)
(* The synthesizer.                                                        *)
(***************************************************************************)
\* the entry names of the model in the order of their bytes, which is the
\* order sort.Slice gives the listing (list[i].Name() < list[j].Name())
SortedNames ==
  << "cgroup", "ipc", "mnt", "net", "pid", "pid_for_children", "self", "time",
     "time_for_children", "user", "uts" >>

\* the names (distinct, in whatever order they were collected) sorted by name
SortByName(names) == SelectSeq(SortedNames, LAMBDA name : name \in names)

\* whether name comes before some of the names in the order by name
Before(name, names) ==
  \E i, j \in 1..Len(SortedNames) :
     i < j /\ SortedNames[i] = name /\ SortedNames[j] \in names

\* ioutil.ReadDir(InitProcNsDir) on a directory that holds still, its error
\* dropped: the entries, enumerated in order, sorted by name; none when
\* the directory cannot be opened or an entry of it cannot be examined (rd)
ReadDir(rd, d, order) == IF rd THEN SortByName(Range(order)) ELSE <<>>

\* os.Readlink(filepath.Join(InitProcNsDir, name)), its error dropped: ""
\* when the link cannot be resolved
Readlink(d, name) ==
  IF name \in DOMAIN d /\ d[name].isLink THEN d[name].target ELSE <<>>

\* the body of the loop of fetchInitNamespaces, over the remaining links
RECURSIVE fetchLoop(_, _, _)
fetchLoop(namespacesLinks, d, initNamespacesMap) ==
  IF namespacesLinks = <<>> THEN initNamespacesMap
  ELSE LET name == Head(namespacesLinks)
           linkString == Readlink(d, name)
           trim == Trim(FindString(linkString), {"[", "]", ":"})
           namespaceNumber == ParseUint(trim).val
       IN  fetchLoop(Tail(namespacesLinks), d,
                     [k \in DOMAIN initNamespacesMap \cup {name} |->
                        IF k = name THEN namespaceNumber ELSE initNamespacesMap[k]])

\* fetchInitNamespaces: the namespace values of the /proc/1/ns directory
fetchInitNamespaces(rd, d, order) ==
  fetchLoop(ReadDir(rd, d, order), d, [k \in {} |-> Zero32])

\* Faulty variant of argumentsLoop: the arguments the map has a value for
\* come first, the others after them.
argumentsLoop_MapOrder(schema, initNamespaces) ==
  LET present == SelectSeq(schema, LAMBDA a : a.Name \in DOMAIN initNamespaces)
      absent == SelectSeq(schema, LAMBDA a : a.Name \notin DOMAIN initNamespaces)
      sorted == present \o absent
  IN  [i \in 1..Len(sorted) |->
         [Name |-> sorted[i].Name, Type |-> sorted[i].Type,
          Value |-> IF sorted[i].Name \in DOMAIN initNamespaces
                      THEN initNamespaces[sorted[i].Name] ELSE Zero32]]

\* Faulty variant of argumentsLoop: a name of the map that the schema does
\* not have is appended as one more argument.
argumentsLoop_ExtraAppended(schema, initNamespaces) ==
  LET named == [i \in 1..Len(schema) |->
                  [Name |-> schema[i].Name, Type |-> schema[i].Type,
                   Value |-> IF schema[i].Name \in DOMAIN initNamespaces
                               THEN initNamespaces[schema[i].Name] ELSE Zero32]]
      extras == DOMAIN initNamespaces \ {schema[i].Name : i \in 1..Len(schema)}
  IN  IF extras = {} THEN named
      ELSE LET k == CHOOSE k \in extras : TRUE
           IN  Append(named, [Name |-> k, Type |-> "u32", Value |-> initNamespaces[k]])

\* Faulty variant of argumentsLoop: a schema element whose name the map
\* lacks gets no argument.
argumentsLoop_SkipAbsent(schema, initNamespaces) ==
  LET present == SelectSeq(schema, LAMBDA a : a.Name \in DOMAIN initNamespaces)
  IN  [i \in 1..Len(present) |->
         [Name |-> present[i].Name, Type |-> present[i].Type,
          Value |-> initNamespaces[present[i].Name]]]

\* the loop of getInitNamespaceArguments: one argument per element of the
\* schema, its value read from the map (0 when the map has no such key)
argumentsLoop(schema, initNamespaces) ==
  [i \in 1..Len(schema) |->
     [Name |-> schema[i].Name, Type |-> schema[i].Type,
      Value |-> IF schema[i].Name \in DOMAIN initNamespaces
                  THEN initNamespaces[schema[i].Name] ELSE Zero32]]

\* getInitNamespaceArguments: the namespaces of the init process as the
\* arguments of the event, in the order of the schema of init_namespaces
getInitNamespaceArguments(params, rd, d, order) ==
  argumentsLoop(ParamsLookup(params, InitNamespacesEventID), fetchInitNamespaces(rd, d, order))

\* the external.Event that CreateInitNamespacesEvent builds at time now
InitNamespacesEvent(events, params, rd, d, order, now) ==
  LET initNamespacesArgs == getInitNamespaceArguments(params, rd, d, order)
  IN  [Timestamp |-> now,
       ProcessName |-> "tracee-ebpf",
       EventID |-> InitNamespacesEventID,
       EventName |-> EventLookup(events, InitNamespacesEventID).Name,
       ArgsNum |-> Len(initNamespacesArgs),
       Args |-> initNamespacesArgs]

(***************************************************************************)
(* A call of CreateInitNamespacesEvent.  The call reads the directory with *)
(* one system call after the other, and the directory may change between   *)
(* any two of them.                                                        *)
(***************************************************************************)
\* what the call before the last returned, after one more call
Shifted ==
  IF last.made THEN [made |-> TRUE, event |-> last.event, err |-> last.err] ELSE NoCall

\* CreateInitNamespacesEvent is called, and calls getInitNamespaceArguments,
\* which calls fetchInitNamespaces.  (What is kept of the calls before is
\* dropped when the directory changed during the last of them.)
Call ==
  /\ run.pc \in {"idle", "done"}
  /\ run' = [NoRun EXCEPT !.pc = "Open"]
  /\ IF last.made /\ ~last.still
       THEN prev' = NoCall /\ last' = NoCall
       ELSE UNCHANGED <<prev, last>>
  /\ UNCHANGED <<dir, readable, searchable, clock, eventsWritten, paramsWritten, trip>>
  /\ UNCHANGED readerVars

\* what the call under way does next.  In ioutil.ReadDir: it opens the
\* directory, enumerates the names, takes the file information of the
\* next name, or (every name examined, or one that could not be) closes,
\* sorts and returns.  In the loop of
\* fetchInitNamespaces: it resolves the link of the next entry, or leaves
\* the loop and returns.
AtOpen == run.pc = "Open"
AtGetdents == run.pc = "Getdents"
AtLstat == run.pc = "Lstat" /\ ~run.failed /\ run.names \ run.examined # {}
AtListed == run.pc = "Lstat" /\ (run.failed \/ run.names \ run.examined = {})
AtReadlink == run.pc = "loop" /\ run.i <= Len(run.namespacesLinks)
AtReturn == run.pc = "loop" /\ run.i > Len(run.namespacesLinks)

\* Faulty variant of StepOpen: the names are enumerated although the
\* directory could not be opened.
StepOpen_DespiteError ==
  /\ AtOpen
  /\ run' = [run EXCEPT !.pc = "Getdents",
                        !.opened = TRUE,
                        !.readDirs = @ + 1,
                        !.steps = @ + 1]
  /\ UNCHANGED <<dir, readable, searchable, clock, eventsWritten, paramsWritten, prev, last, trip>>
  /\ UNCHANGED readerVars

\* ioutil.ReadDir: os.Open(dirname).  When it fails ioutil.ReadDir returns
\* nil and the error, which fetchInitNamespaces drops.
StepOpen ==
  /\ AtOpen
  /\ run' = IF readable
              THEN [run EXCEPT !.pc = "Getdents",
                               !.opened = TRUE,
                               !.readDirs = @ + 1,
                               !.steps = @ + 1]
              ELSE [run EXCEPT !.pc = "loop",
                               !.namespacesLinks = <<>>,
                               !.i = 1,
                               !.readDirs = @ + 1,
                               !.steps = @ + 1]
  /\ UNCHANGED <<dir, readable, searchable, clock, eventsWritten, paramsWritten, prev, last, trip>>
  /\ UNCHANGED readerVars

\* ioutil.ReadDir: f.Readdir(-1) reads the names of the directory.  The
\* kernel gives them in an order of its own, which may be any (the order
\* of a table, of a hash, of creation): the state keeps the names, and the
\* order shows as the names are examined one after the other.
StepGetdents ==
  /\ AtGetdents
  /\ run' = [run EXCEPT !.pc = "Lstat",
                        !.names = DOMAIN dir,
                        !.steps = @ + 1]
  /\ UNCHANGED <<dir, readable, searchable, clock, eventsWritten, paramsWritten, prev, last, trip>>
  /\ UNCHANGED readerVars

\* ioutil.ReadDir: f.Readdir(-1) takes the file information of the next
\* name, which is any of the names not examined yet.  A name that is gone
\* by now is left out; when lstat fails otherwise (the entries cannot be
\* reached) f.Readdir(-1) returns the error.
StepLstat(name) ==
  /\ AtLstat
  /\ name \in run.names \ run.examined
  /\ run' = IF searchable
              THEN [run EXCEPT !.examined = @ \cup {name},
                               !.list = IF name \in DOMAIN dir THEN @ \cup {name} ELSE @,
                               !.moved = @ \/ (name \in DOMAIN dir /\ Before(name, run.list)),
                               !.lstats = @ + 1,
                               !.steps = @ + 1]
              ELSE [run EXCEPT !.failed = TRUE,
                               !.lstats = @ + 1,
                               !.steps = @ + 1]
  /\ UNCHANGED <<dir, readable, searchable, clock, eventsWritten, paramsWritten, prev, last, trip>>
  /\ UNCHANGED readerVars

\* ioutil.ReadDir closes the directory and, after an error of
\* f.Readdir(-1), returns nil and the error, which fetchInitNamespaces
\* drops; else it sorts the list by name and returns it:
\* namespacesLinks, _ := ioutil.ReadDir(InitProcNsDir)
StepListed ==
  /\ AtListed
  /\ run' = [run EXCEPT !.pc = "loop",
                        !.namespacesLinks = IF run.failed THEN <<>> ELSE SortByName(run.list),
                        !.i = 1,
                        !.names = {},
                        !.examined = {},
                        !.list = {},
                        !.steps = @ + 1]
  /\ UNCHANGED <<dir, readable, searchable, clock, eventsWritten, paramsWritten, prev, last, trip>>
  /\ UNCHANGED readerVars

\* the directory as os.Readlink reaches it: no entry when the entries
\* cannot be reached
Reached == IF searchable THEN dir ELSE [name \in {} |-> Unresolvable]

\* the number of calls of os.Readlink on name, after one more
Counted(readlinks, name) ==
  [k \in DOMAIN readlinks \cup {name} |->
     IF k = name THEN (IF name \in DOMAIN readlinks THEN readlinks[name] ELSE 0) + 1
     ELSE readlinks[k]]

\* Faulty variant of StepReadlink: a link that could not be resolved is
\* tried again.
StepReadlink_RetryOnFailure ==
  /\ AtReadlink
  /\ LET name == run.namespacesLinks[run.i]
     IN  run' = [run EXCEPT !.initNamespacesMap = fetchLoop(<<name>>, Reached, @),
                            !.readlinks = Counted(@, name),
                            !.i = IF Readlink(Reached, name) = <<>> THEN @ ELSE @ + 1,
                            !.steps = @ + 1]
  /\ UNCHANGED <<dir, readable, searchable, clock, eventsWritten, paramsWritten, prev, last, trip>>
  /\ UNCHANGED readerVars

\* Faulty variant of StepReadlink: the loop ends at the first link that
\* cannot be resolved.
StepReadlink_StopOnError ==
  /\ AtReadlink
  /\ LET name == run.namespacesLinks[run.i]
     IN  run' = IF Readlink(Reached, name) = <<>>
                  THEN [run EXCEPT !.readlinks = Counted(@, name),
                                   !.i = Len(run.namespacesLinks) + 1,
                                   !.steps = @ + 1]
                  ELSE [run EXCEPT !.initNamespacesMap = fetchLoop(<<name>>, Reached, @),
                                   !.readlinks = Counted(@, name),
                                   !.i = @ + 1,
                                   !.steps = @ + 1]
  /\ UNCHANGED <<dir, readable, searchable, clock, eventsWritten, paramsWritten, prev, last, trip>>
  /\ UNCHANGED readerVars

\* one iteration of the loop of fetchInitNamespaces: the link of the next
\* entry is resolved and its number is stored under the entry's name
StepReadlink ==
  /\ AtReadlink
  /\ LET name == run.namespacesLinks[run.i]
     IN  run' = [run EXCEPT !.initNamespacesMap = fetchLoop(<<name>>, Reached, @),
                            !.readlinks = Counted(@, name),
                            !.i = @ + 1,
                            !.steps = @ + 1]
  /\ UNCHANGED <<dir, readable, searchable, clock, eventsWritten, paramsWritten, prev, last, trip>>
  /\ UNCHANGED readerVars

\* what the call returns: the event and a nil error (with the listing,
\* whether the sort had to move a name, the map the loop built, and whether
\* the directory held still from its opening to the return)
Returned(event) ==
  [made |-> TRUE,
   event |-> event,
   err |-> "nil",
   moved |-> run.moved,
   order |-> run.namespacesLinks,
   initNamespaces |-> run.initNamespacesMap,
   still |-> run.still]

\* Faulty variant of StepReturn: the arguments are appended to those of
\* the event the call before returned.
StepReturn_AppendsToLast ==
  /\ AtReturn
  /\ LET initNamespacesArgs ==
           (IF last.made THEN last.event.Args ELSE <<>>) \o
           argumentsLoop(ParamsLookup(EventsIDToParams, InitNamespacesEventID), run.initNamespacesMap)
         initNamespacesEvent ==
           [Timestamp |-> clock,
            ProcessName |-> "tracee-ebpf",
            EventID |-> InitNamespacesEventID,
            EventName |-> EventLookup(EventsIDToEvent, InitNamespacesEventID).Name,
            ArgsNum |-> Len(initNamespacesArgs),
            Args |-> initNamespacesArgs]
     IN  /\ run' = [run EXCEPT !.pc = "done",
                               !.steps = @ + 1,
                               !.event = [made |-> TRUE, event |-> initNamespacesEvent, err |-> "nil"]]
         /\ last' = Returned(initNamespacesEvent)
  /\ prev' = Shifted
  /\ UNCHANGED <<dir, readable, searchable, clock, eventsWritten, paramsWritten, trip>>
  /\ UNCHANGED readerVars

\* Faulty variant of StepReturn: ArgsNum counts the entries of the map, not
\* the arguments.
StepReturn_CountsEntries ==
  /\ AtReturn
  /\ LET initNamespacesArgs ==
           argumentsLoop(ParamsLookup(EventsIDToParams, InitNamespacesEventID), run.initNamespacesMap)
         initNamespacesEvent ==
           [Timestamp |-> clock,
            ProcessName |-> "tracee-ebpf",
            EventID |-> InitNamespacesEventID,
            EventName |-> EventLookup(EventsIDToEvent, InitNamespacesEventID).Name,
            ArgsNum |-> Cardinality(DOMAIN run.initNamespacesMap),
            Args |-> initNamespacesArgs]
     IN  /\ run' = [run EXCEPT !.pc = "done",
                               !.steps = @ + 1,
                               !.event = [made |-> TRUE, event |-> initNamespacesEvent, err |-> "nil"]]
         /\ last' = Returned(initNamespacesEvent)
  /\ prev' = Shifted
  /\ UNCHANGED <<dir, readable, searchable, clock, eventsWritten, paramsWritten, trip>>
  /\ UNCHANGED readerVars

\* Faulty variant of StepReturn: the call leaves the schema of
\* init_namespaces empty in EventsIDToParams.
StepReturn_ConsumesSchema ==
  /\ AtReturn
  /\ LET initNamespacesArgs ==
           argumentsLoop(ParamsLookup(EventsIDToParams, InitNamespacesEventID), run.initNamespacesMap)
         initNamespacesEvent ==
           [Timestamp |-> clock,
            ProcessName |-> "tracee-ebpf",
            EventID |-> InitNamespacesEventID,
            EventName |-> EventLookup(EventsIDToEvent, InitNamespacesEventID).Name,
            ArgsNum |-> Len(initNamespacesArgs),
            Args |-> initNamespacesArgs]
     IN  /\ run' = [run EXCEPT !.pc = "done",
                               !.steps = @ + 1,
                               !.event = [made |-> TRUE, event |-> initNamespacesEvent, err |-> "nil"]]
         /\ last' = Returned(initNamespacesEvent)
  /\ prev' = Shifted
  /\ paramsWritten' = [id \in DOMAIN paramsWritten \cup {InitNamespacesEventID} |->
                         IF id = InitNamespacesEventID THEN <<>> ELSE paramsWritten[id]]
  /\ UNCHANGED <<dir, readable, searchable, clock, eventsWritten, trip>>
  /\ UNCHANGED readerVars

\* the loop of fetchInitNamespaces is over: getInitNamespaceArguments
\* builds the arguments from the map, CreateInitNamespacesEvent reads the
\* time and returns the event
StepReturn ==
  /\ AtReturn
  /\ LET initNamespacesArgs ==
           argumentsLoop(ParamsLookup(EventsIDToParams, InitNamespacesEventID), run.initNamespacesMap)
         initNamespacesEvent ==
           [Timestamp |-> clock,
            ProcessName |-> "tracee-ebpf",
            EventID |-> InitNamespacesEventID,
            EventName |-> EventLookup(EventsIDToEvent, InitNamespacesEventID).Name,
            ArgsNum |-> Len(initNamespacesArgs),
            Args |-> initNamespacesArgs]
     IN  /\ run' = [run EXCEPT !.pc = "done",
                               !.steps = @ + 1,
                               !.event = [made |-> TRUE, event |-> initNamespacesEvent, err |-> "nil"]]
         /\ last' = Returned(initNamespacesEvent)
  /\ prev' = Shifted
  /\ UNCHANGED <<dir, readable, searchable, clock, eventsWritten, paramsWritten, trip>>
  /\ UNCHANGED readerVars

(***************************************************************************)
(* The environment: the directory changes, the clock advances.             *)
(***************************************************************************)
\* a change of the directory: what the calls before returned is forgotten,
\* and so is what a call that has returned did; a call that has opened the
\* directory (or failed to) and has not returned is one the directory
\* changed under
Forget ==
  /\ prev' = NoCall
  /\ last' = NoCall
  /\ run' = CASE run.pc \in {"Getdents", "Lstat", "loop"} -> [run EXCEPT !.still = FALSE]
              [] run.pc = "done" -> NoRun
              [] OTHER -> run

\* symlink(2): a new entry name, a symbolic link to target
Symlink(name, target) ==
  /\ name \notin DOMAIN dir
  /\ Cardinality(DOMAIN dir) < MaxEntries
  /\ dir' = [k \in DOMAIN dir \cup {name} |-> IF k = name THEN Link(target) ELSE dir[k]]
  /\ Forget
  /\ UNCHANGED <<readable, searchable, clock, eventsWritten, paramsWritten, trip>>
  /\ UNCHANGED readerVars

\* a new entry name that is no symbolic link: os.Readlink fails on it
Create(name) ==
  /\ name \notin DOMAIN dir
  /\ Cardinality(DOMAIN dir) < MaxEntries
  /\ dir' = [k \in DOMAIN dir \cup {name} |-> IF k = name THEN Unresolvable ELSE dir[k]]
  /\ Forget
  /\ UNCHANGED <<readable, searchable, clock, eventsWritten, paramsWritten, trip>>
  /\ UNCHANGED readerVars

\* the entry name is removed
Remove(name) ==
  /\ name \in DOMAIN dir
  /\ dir' = [k \in DOMAIN dir \ {name} |-> dir[k]]
  /\ Forget
  /\ UNCHANGED <<readable, searchable, clock, eventsWritten, paramsWritten, trip>>
  /\ UNCHANGED readerVars

\* the read permission of the directory is given or taken: it decides the
\* open of ioutil.ReadDir, and nothing of a directory that is open already
Chmod ==
  /\ readable' = ~readable
  /\ Forget
  /\ UNCHANGED <<dir, searchable, clock, eventsWritten, paramsWritten, trip>>
  /\ UNCHANGED readerVars

\* the search permission of the directory is given or taken: it decides
\* every lstat and every os.Readlink of an entry, and not the open of the
\* directory nor the reading of its names
ChmodSearch ==
  /\ searchable' = ~searchable
  /\ Forget
  /\ UNCHANGED <<dir, readable, clock, eventsWritten, paramsWritten, trip>>
  /\ UNCHANGED readerVars

Tick ==
  /\ clock < MaxClock
  /\ clock' = clock + 1
  /\ UNCHANGED <<dir, readable, searchable, eventsWritten, paramsWritten, prev, last>>
  /\ UNCHANGED readerVars
  /\ UNCHANGED stepVars

Init ==
  /\ dir = [k \in {} |-> Unresolvable]
  /\ readable = TRUE
  /\ searchable = TRUE
  /\ clock = 0
  /\ eventsWritten = NoWrites
  /\ paramsWritten = NoWrites
  /\ prev = NoCall
  /\ last = NoCall
  /\ returned = NoLookup
  /\ first = NoSchemas
  /\ used = NoUse
  /\ run = NoRun
  /\ trip = NoTrip

Next ==
  \/ Call
  \/ StepOpen
  \/ StepGetdents
  \/ \E name \in DirNames : StepLstat(name)
  \/ StepListed
  \/ StepReadlink
  \/ StepReturn
  \/ \E name \in DirNames, target \in LinkTargets : Symlink(name, target)
  \/ \E name \in DirNames : Create(name)
  \/ \E name \in DirNames : Remove(name)
  \/ Chmod
  \/ ChmodSearch
  \/ Tick

Spec == Init /\ [][Next]_vars

(***************************************************************************)
(* The enumerations of the configuration slots and of the tail calls.      *)
(***************************************************************************)
\* const ( configDetectOrigSyscall bpfConfig = iota + 1 ... configCgroupV1 )
bpfConfigBase == 1
bpfConfigNames ==
  << "configDetectOrigSyscall", "configExecEnv", "configCaptureFiles",
     "configExtractDynCode", "configTraceePid", "configStackAddresses",
     "configUIDFilter", "configMntNsFilter", "configPidNsFilter",
     "configUTSNsFilter", "configCommFilter", "configPidFilter",
     "configContFilter", "configFollowFilter", "configNewPidFilter",
     "configNewContFilter", "configDebugNet", "configProcTreeFilter",
     "configCaptureModules", "configCgroupV1" >>

\* const ( tailVfsWrite uint32 = iota ... tailSendBinTP )
tailNames == <<"tailVfsWrite", "tailVfsWritev", "tailSendBin", "tailSendBinTP">>

\* iota: the position of a constant in its const block, counted from 0
iota(names, name) == IndexOf(names, name) - 1

\* Faulty variant of bpfConfig: the block is declared with a bare iota.
bpfConfig_BareIota(name) == iota(bpfConfigNames, name)

\* the value of the constant name of type bpfConfig
bpfConfig(name) == iota(bpfConfigNames, name) + bpfConfigBase

\* Faulty variant of tail: the block is declared as iota + 1, as the block
\* of the configuration slots is.
tail_IotaPlusOne(name) == iota(tailNames, name) + 1

\* the value of the tail call index name
tail(name) == iota(tailNames, name)

Enumerations == {"bpfConfig", "tail"}
EnumNames(enum) == IF enum = "bpfConfig" THEN bpfConfigNames ELSE tailNames
EnumValue(enum, name) == IF enum = "bpfConfig" THEN bpfConfig(name) ELSE tail(name)

\* the constants a and b of an enumeration are evaluated
Use(enum, a, b) ==
  /\ used' = [made |-> TRUE, enum |-> enum, a |-> a, b |-> b,
              va |-> EnumValue(enum, a), vb |-> EnumValue(enum, b)]
  /\ UNCHANGED <<dir, readable, searchable, clock, eventsWritten, paramsWritten, prev, last, returned, first>>
  /\ UNCHANGED stepVars

EnumNext ==
  \E enum \in Enumerations : \E a, b \in Range(EnumNames(enum)) : Use(enum, a, b)

EnumSpec == Init /\ [][EnumNext]_vars

(***************************************************************************)
(* The readers of the registry and the synthesizer, side by side.          *)
(***************************************************************************)
\* identifiers the readers and the claims name
ReadEventID == EventIDValue("ReadEventID")
AfsEventID == EventIDValue("AfsEventID")
SysEnterEventID == EventIDValue("SysEnterEventID")
SocketDupEventID == EventIDValue("SocketDupEventID")

\* the bands of identifiers: the kernel events (the const block from
\* SysEnterEventID on, MaxEventID being its bound and no event), the
\* user-space events, and the syscalls
KernelEventIDs == {EventIDValue(sym) : sym \in Range(NonSyscallEventIDs) \ {"MaxEventID"}}
UserSpaceEventIDValues == {EventIDValue(sym) : sym \in Range(UserSpaceEventIDs)}
SyscallEventIDValues == {EventIDValue(sym) : sym \in Range(SyscallEventIDs)}
DeclaredEventIDs == Range(SyscallEventIDs) \cup Range(NonSyscallEventIDs) \cup Range(UserSpaceEventIDs)
DeclaredEventIDValues == {EventIDValue(sym) : sym \in DeclaredEventIDs}

MaxReaders == 2
Readers == 1..MaxReaders

\* the identifiers the readers look up: a syscall, a syscall that has no
\* schema, an essential kernel event, the bound of the kernel band (which is
\* no event), and the event of the synthesizer
ProbeIDs == {ReadEventID, AfsEventID, SysEnterEventID, MaxEventID, InitNamespacesEventID}

\* reader r evaluates EventsIDToEvent[id]
LookupEvent(r, id) ==
  /\ returned' = [made |-> TRUE, reader |-> r, table |-> "EventsIDToEvent", id |-> id,
                  value |-> EventLookup(EventsIDToEvent, id)]
  /\ UNCHANGED <<dir, readable, searchable, clock, eventsWritten, paramsWritten, prev, last, first, used>>
  /\ UNCHANGED stepVars

\* what first holds after a lookup of id in EventsIDToParams gave schema
Noted(id, schema) ==
  IF id \in DOMAIN first THEN first
  ELSE [k \in DOMAIN first \cup {id} |-> IF k = id THEN schema ELSE first[k]]

\* Faulty variant of LookupParams: the read of an absent key adds the key
\* with an empty schema, as the index operator of some map types does.
LookupParams_Inserting(r, id) ==
  /\ returned' = [made |-> TRUE, reader |-> r, table |-> "EventsIDToParams", id |-> id,
                  value |-> ParamsLookup(EventsIDToParams, id)]
  /\ first' = Noted(id, ParamsLookup(EventsIDToParams, id))
  /\ paramsWritten' =
       IF id \in DOMAIN EventsIDToParams THEN paramsWritten
       ELSE [k \in DOMAIN paramsWritten \cup {id} |-> IF k = id THEN <<>> ELSE paramsWritten[k]]
  /\ UNCHANGED <<dir, readable, searchable, clock, eventsWritten, prev, last, used>>
  /\ UNCHANGED stepVars

\* reader r evaluates EventsIDToParams[id]
LookupParams(r, id) ==
  /\ returned' = [made |-> TRUE, reader |-> r, table |-> "EventsIDToParams", id |-> id,
                  value |-> ParamsLookup(EventsIDToParams, id)]
  /\ first' = Noted(id, ParamsLookup(EventsIDToParams, id))
  /\ UNCHANGED <<dir, readable, searchable, clock, eventsWritten, paramsWritten, prev, last, used>>
  /\ UNCHANGED stepVars

\* the registry is read while /proc/1/ns holds the link pid -> pid:[12]
RegistryInit ==
  /\ dir = [k \in {"pid"} |-> Link(<<"p","i","d",":","[","1","2","]">>)]
  /\ readable = TRUE
  /\ searchable = TRUE
  /\ clock = 0
  /\ eventsWritten = NoWrites
  /\ paramsWritten = NoWrites
  /\ prev = NoCall
  /\ last = NoCall
  /\ returned = NoLookup
  /\ first = NoSchemas
  /\ used = NoUse
  /\ run = NoRun
  /\ trip = NoTrip

RegistryNext ==
  \/ \E r \in Readers, id \in ProbeIDs : LookupEvent(r, id)
  \/ \E r \in Readers, id \in ProbeIDs : LookupParams(r, id)
  \/ Call
  \/ StepOpen
  \/ StepGetdents
  \/ \E name \in DirNames : StepLstat(name)
  \/ StepListed
  \/ StepReadlink
  \/ StepReturn

RegistrySpec == RegistryInit /\ [][RegistryNext]_vars

(***************************************************************************)
(* A call on a full namespace directory.                                   *)
(***************************************************************************)
\* the entries of /proc/1/ns, in the order ioutil.ReadDir lists them (by
\* name), and the kind each link names
NamespaceNames ==
  << "cgroup", "ipc", "mnt", "net", "pid", "pid_for_children", "time",
     "time_for_children", "user", "uts" >>
NamespaceKinds ==
  [ cgroup |-> <<"c","g","r","o","u","p">>, ipc |-> <<"i","p","c">>,
    mnt |-> <<"m","n","t">>, net |-> <<"n","e","t">>, pid |-> <<"p","i","d">>,
    pid_for_children |-> <<"p","i","d">>, time |-> <<"t","i","m","e">>,
    time_for_children |-> <<"t","i","m","e">>, user |-> <<"u","s","e","r">>,
    uts |-> <<"u","t","s">> ]

\* numbers a namespace may have: 4026531835 and 12
NamespaceNumbers ==
  { <<"4","0","2","6","5","3","1","8","3","5">>, <<"1","2">> }

\* the numbers under the ten names: one number under every name, or one
\* name with another number, or with the number 0, than the others
NamespaceNumberings ==
  { [name \in Range(NamespaceNames) |-> IF name = one THEN other ELSE number] :
      one \in Range(NamespaceNames), number \in NamespaceNumbers,
      other \in NamespaceNumbers \cup {<<"0">>} }

\* the link target kind:[number]
NamespaceTarget(kind, number) == kind \o <<":", "[">> \o number \o <<"]">>

\* the directories that hold one link for each of the ten names
FullDirectories ==
  { [name \in Range(NamespaceNames) |-> Link(NamespaceTarget(NamespaceKinds[name], numbers[name]))] :
      numbers \in NamespaceNumberings }

FullInit ==
  /\ dir \in FullDirectories
  /\ readable = TRUE
  /\ searchable = TRUE
  /\ clock = 0
  /\ eventsWritten = NoWrites
  /\ paramsWritten = NoWrites
  /\ prev = NoCall
  /\ last = NoCall
  /\ returned = NoLookup
  /\ first = NoSchemas
  /\ used = NoUse
  /\ run = NoRun
  /\ trip = NoTrip

FullNext ==
  \/ Call
  \/ StepOpen
  \/ StepGetdents
  \/ \E name \in Range(NamespaceNames) : StepLstat(name)
  \/ StepListed
  \/ StepReadlink
  \/ StepReturn

FullSpec == FullInit /\ [][FullNext]_vars

(***************************************************************************)
(* The argument decoder contract: the buffer holds the values of an        *)
(* event's arguments one after the other, in the order of its schema, with *)
(* no tag and no length per argument; the schema alone says where one      *)
(* value ends and the next begins.                                         *)
(***************************************************************************)
\* type argType uint8; const ( noneT argType = iota ... argsArrT )
argTypeNames ==
  << "noneT", "intT", "uintT", "longT", "ulongT", "offT", "modeT", "devT",
     "sizeT", "pointerT", "strT", "strArrT", "sockAddrT", "bytesT", "u16T",
     "credT", "intArr2T", "argsArrT" >>
argType(name) == iota(argTypeNames, name)

\* the type tag the decoder applies to an argument of C type paramType;
\* a type without a rule of its own is a pointer
getParamType(paramType) ==
  CASE paramType \in {"int", "pid_t", "uid_t", "gid_t", "mqd_t", "clockid_t",
                      "const clockid_t", "key_t", "key_serial_t", "timer_t"} -> argType("intT")
    [] paramType \in {"unsigned int", "u32"} -> argType("uintT")
    [] paramType = "long" -> argType("longT")
    [] paramType \in {"unsigned long", "u64"} -> argType("ulongT")
    [] paramType = "off_t" -> argType("offT")
    [] paramType = "mode_t" -> argType("modeT")
    [] paramType = "dev_t" -> argType("devT")
    [] paramType = "size_t" -> argType("sizeT")
    [] paramType \in {"void*", "const void*"} -> argType("pointerT")
    [] paramType \in {"char*", "const char*"} -> argType("strT")
    [] paramType \in {"const char*const*", "const char**", "char**"} -> argType("strArrT")
    [] paramType \in {"const struct sockaddr*", "struct sockaddr*"} -> argType("sockAddrT")
    [] paramType = "bytes" -> argType("bytesT")
    [] paramType = "int[2]" -> argType("intArr2T")
    [] paramType = "slim_cred_t" -> argType("credT")
    [] paramType = "umode_t" -> argType("u16T")
    [] OTHER -> argType("pointerT")

\* the type tags by the shape of their values
Int32Types == {argType("intT")}
Uint32Types == {argType("uintT"), argType("modeT"), argType("devT")}
Uint64Types ==
  {argType("longT"), argType("ulongT"), argType("offT"), argType("sizeT"), argType("pointerT")}

\* a 64-bit value as two uint32 halves
U64(hi, lo) == [hi |-> hi, lo |-> lo]

\* the fields of a credential record, in the order they are written
CredFields == <<"Uid", "Gid", "Suid", "Sgid", "Euid", "Egid", "Fsuid", "Fsgid">>
\* the bytes of sa_data in a socket address record
SockAddrDataLen == 14

\* ---- writing (little-endian) ----
PutUint16(v) == <<v % 256, v \div 256>>
PutUint32(v) == PutUint16(v.lo) \o PutUint16(v.hi)
PutUint64(v) == PutUint32(v.lo) \o PutUint32(v.hi)
\* an int32 in two's complement
PutInt32(v) ==
  IF v >= 0 THEN PutUint32(U32(v \div Limb, v % Limb))
  ELSE LET u == (v + 2147483647) + 1
       IN  PutUint32(U32((u \div Limb) + 32768, u % Limb))
\* a string: its size with the terminator, its bytes, the terminator
PutString(s) == PutUint32(U32(0, Len(s) + 1)) \o s \o <<0>>
RECURSIVE PutStrings(_)
PutStrings(ss) == IF ss = <<>> THEN <<>> ELSE PutString(Head(ss)) \o PutStrings(Tail(ss))
RECURSIVE PutFields(_, _)
PutFields(fields, rec) ==
  IF fields = <<>> THEN <<>>
  ELSE PutUint32(rec[Head(fields)]) \o PutFields(Tail(fields), rec)

\* the bytes of value v under type tag t
EncodeArg(t, v) ==
  CASE t \in Int32Types -> PutInt32(v)
    [] t \in Uint32Types -> PutUint32(v)
    [] t \in Uint64Types -> PutUint64(v)
    [] t = argType("u16T") -> PutUint16(v)
    [] t = argType("strT") -> PutString(v)
    [] t = argType("strArrT") -> <<Len(v)>> \o PutStrings(v)
    [] t = argType("bytesT") -> PutUint32(U32(0, Len(v))) \o v
    [] t = argType("sockAddrT") -> PutUint16(v.sa_family) \o v.sa_data
    [] t = argType("credT") -> PutFields(CredFields, v)
    [] t = argType("intArr2T") -> PutInt32(v[1]) \o PutInt32(v[2])

\* the buffer of an event: the values in the order of the schema
RECURSIVE Encode(_, _)
Encode(schema, values) ==
  IF schema = <<>> THEN <<>>
  ELSE EncodeArg(getParamType(Head(schema).Type), Head(values))
         \o Encode(Tail(schema), Tail(values))

\* ---- reading ----
\* a value read and the bytes it took
Read(value, n) == [value |-> value, n |-> n]
Skip(buf, n) == SubSeq(buf, n + 1, Len(buf))

Uint16(buf) == buf[1] + 256 * buf[2]
Uint32(buf) == U32(Uint16(Skip(buf, 2)), Uint16(buf))
Uint64(buf) == U64(Uint32(Skip(buf, 4)), Uint32(buf))
Int32(buf) ==
  LET u == Uint32(buf)
  IN  IF u.hi < 32768 THEN u.hi * Limb + u.lo
      ELSE (((u.hi - 32768) * Limb + u.lo) - 2147483647) - 1
\* a string: the size says how many bytes follow, the last is the terminator
ReadString(buf) ==
  LET size == Uint32(buf).lo
  IN  Read(SubSeq(buf, 5, 4 + size - 1), 4 + size)
RECURSIVE ReadStrings(_, _)
ReadStrings(buf, count) ==
  IF count = 0 THEN Read(<<>>, 0)
  ELSE LET s == ReadString(buf)
           rest == ReadStrings(Skip(buf, s.n), count - 1)
       IN  Read(<<s.value>> \o rest.value, s.n + rest.n)
ReadFields(fields, buf) ==
  [f \in Range(fields) |-> Uint32(Skip(buf, 4 * (IndexOf(fields, f) - 1)))]

\* the value of type tag t at the head of buf
DecodeArg(t, buf) ==
  CASE t \in Int32Types -> Read(Int32(buf), 4)
    [] t \in Uint32Types -> Read(Uint32(buf), 4)
    [] t \in Uint64Types -> Read(Uint64(buf), 8)
    [] t = argType("u16T") -> Read(Uint16(buf), 2)
    [] t = argType("strT") -> ReadString(buf)
    [] t = argType("strArrT") ->
         LET ss == ReadStrings(Skip(buf, 1), buf[1])
         IN  Read(ss.value, 1 + ss.n)
    [] t = argType("bytesT") ->
         Read(SubSeq(buf, 5, 4 + Uint32(buf).lo), 4 + Uint32(buf).lo)
    [] t = argType("sockAddrT") ->
         Read([sa_family |-> Uint16(buf), sa_data |-> SubSeq(buf, 3, 2 + SockAddrDataLen)],
              2 + SockAddrDataLen)
    [] t = argType("credT") -> Read(ReadFields(CredFields, buf), 4 * Len(CredFields))
    [] t = argType("intArr2T") -> Read(<<Int32(buf), Int32(Skip(buf, 4))>>, 8)

\* the walk of the schema over the buffer: the named values, and what is
\* left of the buffer
RECURSIVE Decode(_, _)
Decode(schema, buf) ==
  IF schema = <<>> THEN [Args |-> <<>>, rest |-> buf]
  ELSE LET meta == Head(schema)
           arg == DecodeArg(getParamType(meta.Type), buf)
           more == Decode(Tail(schema), Skip(buf, arg.n))
       IN  [Args |-> <<[Name |-> meta.Name, Type |-> meta.Type, Value |-> arg.value]>> \o more.Args,
            rest |-> more.rest]

\* ---- fabricated values ----
MaxSeed == 2
Fabricated(t) ==
  CASE t \in Int32Types -> <<3, -1, 2147483647>>
    [] t \in Uint32Types -> <<U32(0, 420), U32(65535, 65535), U32(1, 0)>>
    [] t \in Uint64Types ->
         <<U64(U32(0, 32767), U32(54321, 4096)), U64(Zero32, U32(0, 512)),
           U64(U32(65535, 65535), U32(65535, 65534))>>
    [] t = argType("u16T") -> <<493, 0, 65535>>
    [] t = argType("strT") -> <<<<47, 101, 116, 99>>, <<>>, <<120>>>>
    [] t = argType("strArrT") -> <<<<<<108, 115>>, <<45, 108>>>>, <<>>, <<<<>>, <<97>>>>>>
    [] t = argType("bytesT") -> <<<<0, 127, 69, 76>>, <<>>, <<0>>>>
    [] t = argType("sockAddrT") ->
         <<[sa_family |-> 2, sa_data |-> <<0, 80, 127, 0, 0, 1, 0, 0, 0, 0, 0, 0, 0, 0>>],
           [sa_family |-> 1, sa_data |-> <<47, 116, 109, 112, 0, 0, 0, 0, 0, 0, 0, 0, 0, 0>>],
           [sa_family |-> 10, sa_data |-> <<1, 187, 0, 0, 0, 0, 0, 0, 0, 0, 0, 0, 0, 1>>]>>
    [] t = argType("credT") ->
         <<[f \in Range(CredFields) |-> U32(0, 1000 + IndexOf(CredFields, f))],
           [f \in Range(CredFields) |-> Zero32],
           [f \in Range(CredFields) |-> U32(65535, 65534)]>>
    [] t = argType("intArr2T") -> <<<<3, 4>>, <<-1, 0>>, <<7, -2>>>>

\* the value fabricated for argument i of a schema under seed
Fabricate(schema, seed) ==
  [i \in 1..Len(schema) |->
     LET samples == Fabricated(getParamType(schema[i].Type))
     IN  samples[((seed + i) % Len(samples)) + 1]]

\* a buffer is fabricated for event id per its schema and read back (once
\* in a behaviour: a round trip uses nothing an earlier one left)
RoundTrip(id, seed) ==
  /\ ~trip.made
  /\ id \in DOMAIN EventsIDToParams
  /\ LET schema == EventsIDToParams[id]
         values == Fabricate(schema, seed)
         buffer == Encode(schema, values)
         read == Decode(schema, buffer)
     IN  trip' = [made |-> TRUE, id |-> id, schema |-> schema, written |-> values,
                  buffer |-> buffer, decoded |-> read.Args, rest |-> read.rest]
  /\ UNCHANGED <<dir, readable, searchable, clock, eventsWritten, paramsWritten, prev, last>>
  /\ UNCHANGED readerVars
  /\ UNCHANGED run

DecodeInit == RegistryInit

DecodeNext ==
  \E id \in DeclaredEventIDValues : \E seed \in 0..MaxSeed : RoundTrip(id, seed)

DecodeSpec == DecodeInit /\ [][DecodeNext]_vars

(***************************************************************************)
(* Notions the properties are stated with.                                 *)
(***************************************************************************)
\* the schema of init_namespaces
Schema == ParamsLookup(EventsIDToParams, InitNamespacesEventID)
SchemaNames == {Schema[i].Name : i \in 1..Len(Schema)}

\* the map fetchInitNamespaces built in the last call
LastInventory == last.initNamespaces

\* the last call has returned, and the directory is as it was when the call
\* listed it: it held still during the call and has not changed since
\* (prev and last are forgotten when it changes)
OnDirectory == last.made /\ last.still

\* the directory can be opened for reading and its entries can be reached:
\* ioutil.ReadDir gives its entries and os.Readlink resolves its links
Accessible == readable /\ searchable

\* the value of the argument called name in the last event
ArgValue(name) ==
  LET Args == last.event.Args
  IN  Args[CHOOSE i \in 1..Len(Args) : Args[i].Name = name].Value
HasArg(name) == \E i \in 1..Len(last.event.Args) : last.event.Args[i].Name = name

\* a link target of the form kind:[N], kind a name and N a decimal number
FormColon(s) == CHOOSE k \in 1..Len(s) : s[k] = ":"
KindNumberForm(s) ==
  /\ \E k \in 1..Len(s) : s[k] = ":"
  /\ LET k == FormColon(s)
     IN  /\ k > 1
         /\ \A i \in 1..(k - 1) : s[i] \notin Digits \cup {":", "[", "]"}
         /\ Len(s) >= k + 3
         /\ s[k + 1] = "["
         /\ s[Len(s)] = "]"
         /\ \A i \in (k + 2)..(Len(s) - 1) : s[i] \in Digits
\* the digits of N
NumberOf(s) == SubSeq(s, FormColon(s) + 2, Len(s) - 1)

\* a decimal numeral without its leading zeros
RECURSIVE Canonical(_)
Canonical(ds) == IF Len(ds) > 1 /\ Head(ds) = "0" THEN Canonical(Tail(ds)) ELSE ds

\* the numeral denotes a number in 0..4294967295
MaxNumeral == <<"4", "2", "9", "4", "9", "6", "7", "2", "9", "5">>
InUint32(ds) ==
  LET c == Canonical(ds)
  IN  \/ Len(c) < Len(MaxNumeral)
      \/ /\ Len(c) = Len(MaxNumeral)
         /\ \/ c = MaxNumeral
            \/ \E i \in 1..Len(c) :
                 /\ DigitValue(c[i]) < DigitValue(MaxNumeral[i])
                 /\ \A j \in 1..(i - 1) : c[j] = MaxNumeral[j]

\* the decimal numeral of a uint32 value, by repeated division by ten
DigitChar(n) == CHOOSE c \in Digits : DigitValue(c) = n
Div10(v) == U32(v.hi \div 10, ((v.hi % 10) * Limb + v.lo) \div 10)
Mod10(v) == ((v.hi % 10) * Limb + v.lo) % 10
RECURSIVE DecimalDigits(_)
DecimalDigits(v) ==
  IF v = Zero32 THEN <<>> ELSE Append(DecimalDigits(Div10(v)), DigitChar(Mod10(v)))
Decimal(v) == IF v = Zero32 THEN <<"0">> ELSE DecimalDigits(v)

\* link targets of the examples
Pid12 == <<"p","i","d",":","[","1","2","]">>
Net4026531840 == <<"n","e","t",":","[","4","0","2","6","5","3","1","8","4","0","]">>
Uts4294967295 == <<"u","t","s",":","[","4","2","9","4","9","6","7","2","9","5","]">>
Net4294967296 == <<"n","e","t",":","[","4","2","9","4","9","6","7","2","9","6","]">>
PidNoOpeningBracket == <<"p","i","d",":","1","2","]">>
PidTwoOpeningBrackets == <<"p","i","d",":","[","[","1","2","]">>
PidBracketInNumber == <<"p","i","d",":","[","1","[","2","]">>
PidNoDigits == <<"p","i","d",":","[","]">>

(***************************************************************************)
(* Properties of the synthesizer.  A property that speaks of the directory *)
(* is about a call during which the directory held still: a call the       *)
(* directory changed under mixes what it read before and after the change. *)
(***************************************************************************)

\* C1: the argument list of the event follows the schema of init_namespaces
\* position by position (name and type), each value is the one the inventory
\* records under the argument's name (0 when it records none), and whatever
\* the order in which a directory that holds still is enumerated the list is
\* the same.
C1_ArgsInSchemaOrder ==
  last.made =>
    LET Args == last.event.Args
        schema == Schema
        inventory == LastInventory
    IN  /\ Len(Args) = Len(schema)
        /\ \A i \in 1..Len(schema) :
             /\ Args[i].Name = schema[i].Name
             /\ Args[i].Type = schema[i].Type
             /\ Args[i].Value =
                  IF schema[i].Name \in DOMAIN inventory
                    THEN inventory[schema[i].Name] ELSE Zero32
        /\ last.still =>
             /\ inventory = fetchInitNamespaces(Accessible, dir, last.order)
             /\ \A o \in Orders(DOMAIN dir) :
                  getInitNamespaceArguments(EventsIDToParams, Accessible, dir, o) = Args

\* the directory gave pid before net (the schema has net before pid, and
\* the sort moved net before pid), the call listed net, pid and read both,
\* the two with different values
W1_EnumeratedAgainstSchemaOrder ==
  /\ OnDirectory
  /\ last.moved
  /\ last.order = <<"net", "pid">>
  /\ ArgValue("pid") = U32(0, 12)
  /\ ArgValue("net") = U32(61440, 0)

\* C2: an entry K whose link target is kind:[N], N in 0..4294967295, is
\* recorded as K -> N, and the argument K of the event, when the schema has
\* one, is N; the key is the name of the entry, whatever the kind says.
C2_WellFormedLinkRecorded ==
  (OnDirectory /\ Accessible) =>
    \A K \in DOMAIN dir :
      (dir[K].isLink /\ KindNumberForm(dir[K].target) /\ InUint32(NumberOf(dir[K].target))) =>
        /\ K \in DOMAIN LastInventory
        /\ Decimal(LastInventory[K]) = Canonical(NumberOf(dir[K].target))
        /\ K \in SchemaNames =>
             /\ HasArg(K)
             /\ Decimal(ArgValue(K)) = Canonical(NumberOf(dir[K].target))

\* pid -> "pid:[12]" gave 12; net -> "uts:[4294967295]", whose kind is not
\* the entry's name, gave net the greatest value
W2_PidAndNetRecorded ==
  /\ OnDirectory /\ Accessible
  /\ DOMAIN dir = {"pid", "net"}
  /\ dir["pid"] = Link(Pid12)
  /\ dir["net"] = Link(Uts4294967295)
  /\ LastInventory = [k \in {"pid", "net"} |-> IF k = "pid" THEN U32(0, 12) ELSE MaxUint32]
  /\ ArgValue("pid") = U32(0, 12)
  /\ ArgValue("net") = MaxUint32

\* the directory without its entry K
Without(d, K) == [k \in DOMAIN d \ {K} |-> d[k]]
\* every argument of the last event but K is as in the event of the
\* directory without K
OthersUnaffected(K) ==
  \A o \in Orders(DOMAIN dir \ {K}) :
    \A i \in 1..Len(last.event.Args) :
      last.event.Args[i].Name # K =>
        last.event.Args[i] =
          getInitNamespaceArguments(EventsIDToParams, Accessible, Without(dir, K), o)[i]

\* C3 (as claimed): an entry whose link target is not of the form
\* kind:[number] gives its argument the value 0, and every other argument
\* is as it would be without that entry.  The code does otherwise: targets
\* without the opening bracket, or with several, still yield their digits.
C3_MalformedLinkIsZero ==
  (OnDirectory /\ Accessible) =>
    \A K \in DOMAIN dir :
      (dir[K].isLink /\ ~KindNumberForm(dir[K].target)) =>
        /\ K \in SchemaNames => ArgValue(K) = Zero32
        /\ OthersUnaffected(K)

\* the numeric suffix the code extracts from the link of entry K
Suffix(K) == Trim(FindString(Readlink(dir, K)), {"[", "]", ":"})
\* the suffix is no unsigned 32-bit decimal number: empty, not decimal, or
\* greater than 4294967295
Unparsable(ds) ==
  \/ ds = <<>>
  \/ \E i \in 1..Len(ds) : ds[i] \notin Digits
  \/ ~InUint32(ds)

\* C4 (as claimed): when the numeric suffix of an entry's link target is no
\* unsigned 32-bit number (empty, not decimal, greater than 4294967295), the
\* argument of that entry is 0 and the other arguments are unaffected.  The
\* code does otherwise for a number above 4294967295: the argument is
\* 4294967295.
C4_UnparsableNumberIsZero ==
  (OnDirectory /\ Accessible) =>
    \A K \in DOMAIN dir :
      Unparsable(Suffix(K)) =>
        /\ last.err = "nil"
        /\ K \in SchemaNames => ArgValue(K) = Zero32
        /\ OthersUnaffected(K)

\* C5: an argument name of the schema that the directory has no entry for
\* is still an argument of the event, with value 0, and the call returns no
\* error.
C5_AbsentNameIsZero ==
  last.made =>
    LET schema == Schema
    IN  /\ last.err = "nil"
        /\ \A i \in 1..Len(schema) :
             (last.still /\ schema[i].Name \notin DOMAIN dir) =>
               /\ HasArg(schema[i].Name)
               /\ ArgValue(schema[i].Name) = Zero32

\* a call on a readable directory that has pid (12) and lacks net
W5_NetAbsent ==
  /\ OnDirectory /\ Accessible
  /\ "net" \notin DOMAIN dir
  /\ "pid" \in DOMAIN dir
  /\ ArgValue("pid") = U32(0, 12)
  /\ ArgValue("net") = Zero32

\* C6: when the directory cannot be read as a whole, the call still returns
\* an event and a nil error; the event has one argument per position of the
\* schema, each with value 0.
C6_UnreadableDirectoryAllZero ==
  (OnDirectory /\ (~readable \/ (~searchable /\ DOMAIN dir # {}))) =>
    LET schema == Schema
    IN  /\ last.err = "nil"
        /\ Len(last.event.Args) = Len(schema)
        /\ \A i \in 1..Len(schema) :
             /\ last.event.Args[i].Name = schema[i].Name
             /\ last.event.Args[i].Value = Zero32

\* a call on an unreadable directory whose entries are well-formed links
W6_UnreadableWithLinks ==
  /\ OnDirectory /\ ~readable /\ searchable
  /\ DOMAIN dir = {"pid", "net"}
  /\ dir["pid"] = Link(Pid12)
  /\ dir["net"] = Link(Net4026531840)
  /\ last.event.ArgsNum = 10

\* C7: when the link of one entry cannot be resolved, the argument of that
\* entry is 0 and every other entry with a well-formed link target keeps
\* the number of its link.
C7_UnresolvableLinkIsolated ==
  (OnDirectory /\ Accessible) =>
    \A K \in DOMAIN dir :
      ~dir[K].isLink =>
        /\ K \in SchemaNames => ArgValue(K) = Zero32
        /\ \A J \in DOMAIN dir \ {K} :
             (dir[J].isLink /\ KindNumberForm(dir[J].target) /\ InUint32(NumberOf(dir[J].target))) =>
               /\ J \in DOMAIN LastInventory
               /\ Decimal(LastInventory[J]) = Canonical(NumberOf(dir[J].target))
               /\ J \in SchemaNames => Decimal(ArgValue(J)) = Canonical(NumberOf(dir[J].target))

\* net, listed first, could not be resolved; pid, listed after it, kept 12
W7_PidUnresolvableNetKept ==
  /\ OnDirectory /\ Accessible
  /\ last.order = <<"net", "pid">>
  /\ dir["net"] = Unresolvable
  /\ dir["pid"] = Link(Pid12)
  /\ ArgValue("net") = Zero32
  /\ ArgValue("pid") = U32(0, 12)

\* C8: every call returns one event with EventID 2000, EventName
\* "init_namespaces", and ArgsNum equal to the length of Args and to the
\* length of the schema of init_namespaces, whatever the directory holds.
C8_EventShape ==
  last.made =>
    /\ last.event.EventID = 2000
    /\ last.event.EventName = "init_namespaces"
    /\ last.event.EventName = EventsIDToEvent[2000].Name
    /\ last.event.ArgsNum = Len(last.event.Args)
    /\ last.event.ArgsNum = Len(EventsIDToParams[2000])
    /\ last.event.ArgsNum = 10

\* a call on a readable directory with a single entry, which no argument
\* is named after
W8_CallOnOddDirectory ==
  /\ OnDirectory /\ Accessible
  /\ DOMAIN dir = {"self"}
  /\ dir["self"] = Link(Pid12)
  /\ last.event.ArgsNum = 10

\* C9 (as claimed): two calls with the directory unchanged between them
\* return equal events.  The code stamps each event with the time of its
\* call, so the events differ once the clock has advanced.
C9_TwoCallsEqualEvents ==
  (prev.made /\ OnDirectory) => prev.event = last.event

\* an event without its timestamp
Untimed(e) == [e EXCEPT !.Timestamp = 0]

\* C9 (amended): two calls with the directory unchanged between them return
\* events equal in every field but Timestamp, and the same error.
C9_TwoCallsEqualButTimestamp ==
  (prev.made /\ OnDirectory) =>
    /\ Untimed(prev.event) = Untimed(last.event)
    /\ prev.err = last.err

\* two calls on the same two-entry directory at different times, which the
\* directory gave to the second as pid, net
W9_TwoCallsApartInTime ==
  /\ prev.made /\ OnDirectory /\ Accessible
  /\ prev.event.Timestamp # last.event.Timestamp
  /\ last.moved
  /\ last.order = <<"net", "pid">>
  /\ ArgValue("pid") = U32(0, 12)
  /\ ArgValue("net") = U32(61440, 0)

\* C10: a call leaves EventsIDToEvent and EventsIDToParams as they were
\* initialized, the schema of init_namespaces that it copies from included.
C10_RegistryUnchanged ==
  last.made =>
    /\ EventsIDToEvent = EventsIDToEventLiteral
    /\ EventsIDToParams = EventsIDToParamsLiteral
    /\ Schema = EventsIDToParamsLiteral[2000]

\* a call that copied the schema into ten arguments and gave two of them
\* values read from the directory
W10_CallCopiedSchema ==
  /\ OnDirectory /\ Accessible
  /\ Len(last.event.Args) = 10
  /\ last.event.Args[5] = [Name |-> "pid", Type |-> "u32", Value |-> U32(0, 12)]
  /\ last.event.Args[4] = [Name |-> "net", Type |-> "u32", Value |-> MaxUint32]

\* C27: entries whose names are no argument names of the schema give the
\* event nothing: its Args and ArgsNum are those of a call on the directory
\* without these entries, and ArgsNum is the length of the schema, 10.
C27_ExtraEntriesIgnored ==
  last.made =>
    LET extras == DOMAIN dir \ SchemaNames
        kept == [k \in DOMAIN dir \ extras |-> dir[k]]
    IN  /\ last.still =>
             \A o \in Orders(DOMAIN kept) :
               LET without == InitNamespacesEvent(EventsIDToEvent, EventsIDToParams, Accessible, kept, o, clock)
               IN  /\ last.event.Args = without.Args
                   /\ last.event.ArgsNum = without.ArgsNum
        /\ last.event.ArgsNum = 10
        /\ Len(last.event.Args) = 10

\* a call on a directory with pid and the extra entry self, whose link
\* names a network namespace: pid is 12 and net stays 0
W27_ExtraEntryBesidePid ==
  /\ OnDirectory /\ Accessible
  /\ DOMAIN dir = {"pid", "self"}
  /\ dir["self"] = Link(Net4026531840)
  /\ dir["pid"] = Link(Pid12)
  /\ ArgValue("pid") = U32(0, 12)
  /\ ArgValue("net") = Zero32
  /\ last.event.ArgsNum = 10

(***************************************************************************)
(* The registry: what the tables hold, and what their readers get.         *)
(***************************************************************************)
\* the last lookup was one of id in table
LookedUp(table, id) == returned.made /\ returned.table = table /\ returned.id = id

\* C11: every identifier that is a key of EventsIDToEvent is a key of
\* EventsIDToParams as well (with a schema that may be empty).
C11_EveryEventHasSchema == DOMAIN EventsIDToEvent \subseteq DOMAIN EventsIDToParams

\* C12: every descriptor of EventsIDToEvent whose EssentialEvent flag is
\* set has at least one probe.
C12_EssentialHasProbes ==
  LET events == EventsIDToEvent
  IN  \A id \in DOMAIN events : events[id].EssentialEvent => events[id].Probes # <<>>

\* a reader got the descriptor of sys_enter: essential, with one probe, a
\* raw tracepoint
W12_EssentialLookedUp ==
  /\ LookedUp("EventsIDToEvent", SysEnterEventID)
  /\ returned.value.EssentialEvent
  /\ Len(returned.value.Probes) = 1
  /\ returned.value.Probes[1].attach = rawTracepoint

\* the display names of the descriptors, and the lookup of an identifier
\* by display name that the table gives rise to
EventNames(events) == {events[id].Name : id \in DOMAIN events}
EventNameToID(events, name) == CHOOSE id \in DOMAIN events : events[id].Name = name

\* C13: no two descriptors of EventsIDToEvent have the same Name: there
\* are as many names as identifiers, and for a descriptor a reader got by
\* identifier, the lookup by its name gives that identifier back, whose
\* descriptor has that name.
C13_NamesUnique ==
  LET events == EventsIDToEvent
  IN  /\ Cardinality(EventNames(events)) = Cardinality(DOMAIN events)
      /\ \A id \in ProbeIDs :
           (LookedUp("EventsIDToEvent", id) /\ id \in DOMAIN events) =>
             /\ EventNameToID(events, returned.value.Name) = id
             /\ events[EventNameToID(events, returned.value.Name)].Name = returned.value.Name

\* a reader got the descriptor of init_namespaces by identifier, and the
\* name leads back to 2000, not to the identifier of socket_dup
W13_NameLeadsBack ==
  /\ LookedUp("EventsIDToEvent", InitNamespacesEventID)
  /\ returned.value.Name = "init_namespaces"
  /\ EventNameToID(EventsIDToEvent, "init_namespaces") = 2000
  /\ EventNameToID(EventsIDToEvent, "socket_dup") = 1031

\* C14: a lookup of an identifier that is not a key of the table gives a
\* result that tells "not found": never the default descriptor, never the
\* default (empty) schema.
C14_UnknownIdNotFound ==
  returned.made =>
    /\ (returned.table = "EventsIDToEvent" /\ returned.id \notin DOMAIN EventsIDToEvent)
         => returned.value # ZeroEventConfig
    /\ (returned.table = "EventsIDToParams" /\ returned.id \notin DOMAIN EventsIDToParams)
         => returned.value # <<>>

\* C15: within every entry of EventsIDToParams the argument names are
\* pairwise distinct.
C15_ArgumentNamesDistinct ==
  LET params == EventsIDToParams
  IN  \A id \in DOMAIN params :
        \A i, j \in 1..Len(params[id]) : params[id][i].Name = params[id][j].Name => i = j

\* a reader got the schema of read: three arguments, fd, buf and count
W15_SchemaOfReadLookedUp ==
  /\ LookedUp("EventsIDToParams", ReadEventID)
  /\ Len(returned.value) = 3
  /\ returned.value[1].Name = "fd"
  /\ returned.value[2].Name = "buf"
  /\ returned.value[3].Name = "count"

\* the descriptor is one of a syscall: one of its probes attaches as sysCall
IsSyscall(config) == \E i \in 1..Len(config.Probes) : config.Probes[i].attach = sysCall

\* C16: every descriptor of a syscall has its ID32Bit set in the literal
\* (to a 32-bit syscall id or to sys32undefined); none leaves it out.
C16_SyscallHasID32Bit ==
  LET events == EventsIDToEvent
  IN  \A id \in DOMAIN events : IsSyscall(events[id]) => events[id].ID32Bit # ZeroEventConfig.ID32Bit

\* a reader got the descriptor of read, a syscall with ID32Bit sys32read,
\* and one got that of afs, a syscall with ID32Bit sys32undefined
W16_SyscallLookedUp ==
  /\ LookedUp("EventsIDToEvent", ReadEventID)
  /\ IsSyscall(returned.value)
  /\ returned.value.ID32Bit = "sys32read"
  /\ IsSyscall(EventsIDToEvent[AfsEventID])
  /\ EventsIDToEvent[AfsEventID].ID32Bit = "sys32undefined"

\* C17: the bands of identifiers are pairwise disjoint and no two declared
\* identifiers are equal; the kernel events are exactly 1000..1031, from
\* SysEnterEventID to SocketDupEventID, and all are keys of the registry;
\* every syscall lies below 1000; InitNamespacesEventID = 2000 is the one
\* user-space identifier.
C17_BandsDisjoint ==
  LET events == EventsIDToEvent
  IN  /\ KernelEventIDs = 1000..1031
      /\ SysEnterEventID = 1000 /\ SocketDupEventID = 1031
      /\ KernelEventIDs \subseteq DOMAIN events
      /\ \A id \in SyscallEventIDValues : id < 1000
      /\ \A id \in DOMAIN events : IsSyscall(events[id]) => id \in SyscallEventIDValues
      /\ UserSpaceEventIDValues = {2000} /\ InitNamespacesEventID = 2000
      /\ KernelEventIDs \cap SyscallEventIDValues = {}
      /\ KernelEventIDs \cap UserSpaceEventIDValues = {}
      /\ SyscallEventIDValues \cap UserSpaceEventIDValues = {}
      /\ Cardinality(DeclaredEventIDValues) = Cardinality(DeclaredEventIDs)
      /\ \A id \in DOMAIN events : events[id].ID = id

\* readers got the descriptors at the ends of the bands: here that of
\* sys_enter, the least kernel event, while 1032 is no key and 2000 is one
W17_KernelBandLookedUp ==
  /\ LookedUp("EventsIDToEvent", SysEnterEventID)
  /\ returned.value.ID = 1000
  /\ returned.value.Name = "sys_enter"
  /\ MaxEventID \notin DOMAIN EventsIDToEvent
  /\ InitNamespacesEventID \in DOMAIN EventsIDToEvent

(***************************************************************************)
(* The enumerations.                                                       *)
(***************************************************************************)
\* the values of the constants of an enumeration, in the order declared
EnumValues(enum) == [i \in 1..Len(EnumNames(enum)) |-> EnumValue(enum, EnumNames(enum)[i])]

\* C18: the constants configDetectOrigSyscall .. configCgroupV1 have
\* pairwise distinct values, 1..20 in the order declared; the least is 1
\* and none is 0.
C18_ConfigSlotsDense ==
  LET values == EnumValues("bpfConfig")
  IN  /\ Len(values) = 20
      /\ \A i \in 1..Len(values) : values[i] = i
      /\ Range(values) = 1..20
      /\ bpfConfig("configDetectOrigSyscall") = 1
      /\ bpfConfig("configCgroupV1") = 20
      /\ (used.made /\ used.enum = "bpfConfig") =>
           /\ used.va # 0 /\ used.vb # 0
           /\ used.va >= 1 /\ used.vb >= 1
           /\ used.a # used.b => used.va # used.vb

\* the first and the last configuration slot were evaluated: 1 and 20
W18_FirstAndLastSlotUsed ==
  /\ used.made
  /\ used.enum = "bpfConfig"
  /\ used.a = "configDetectOrigSyscall" /\ used.va = 1
  /\ used.b = "configCgroupV1" /\ used.vb = 20

\* C19: the constants tailVfsWrite, tailVfsWritev, tailSendBin and
\* tailSendBinTP have pairwise distinct values, 0..3 in the order declared,
\* the first being 0.
C19_TailSlotsDense ==
  LET values == EnumValues("tail")
  IN  /\ Len(values) = 4
      /\ \A i \in 1..Len(values) : values[i] = i - 1
      /\ Range(values) = 0..3
      /\ tail("tailVfsWrite") = 0
      /\ (used.made /\ used.enum = "tail") =>
           /\ used.a # used.b => used.va # used.vb
           /\ used.va \in 0..3 /\ used.vb \in 0..3

\* the first and the last tail call index were evaluated: 0 and 3
W19_FirstAndLastTailUsed ==
  /\ used.made
  /\ used.enum = "tail"
  /\ used.a = "tailVfsWrite" /\ used.va = 0
  /\ used.b = "tailSendBinTP" /\ used.vb = 3

(***************************************************************************)
(* Readers and the synthesizer, interleaved.                               *)
(***************************************************************************)
\* the names and types of the arguments of an event, in order
ArgMetas(args) == [i \in 1..Len(args) |-> [Type |-> args[i].Type, Name |-> args[i].Name]]

\* C20: however the lookups of the readers and the calls of the
\* synthesizer interleave, a lookup of the schema of an identifier gives
\* what the first lookup of that identifier gave (the synthesizer's own
\* lookup of init_namespaces included), and neither table ever differs from
\* its initial value.
C20_LookupsStable ==
  /\ EventsIDToParams = EventsIDToParamsLiteral
  /\ EventsIDToEvent = EventsIDToEventLiteral
  /\ (returned.made /\ returned.table = "EventsIDToParams") =>
       /\ returned.id \in DOMAIN first
       /\ returned.value = first[returned.id]
  /\ \A id \in DOMAIN first : ParamsLookup(EventsIDToParams, id) = first[id]
  /\ (last.made /\ InitNamespacesEventID \in DOMAIN first) =>
       ArgMetas(last.event.Args) = first[InitNamespacesEventID]
  /\ (prev.made /\ InitNamespacesEventID \in DOMAIN first) =>
       ArgMetas(prev.event.Args) = first[InitNamespacesEventID]

\* reader 2 got the schema of init_namespaces, which had been looked up
\* before, as had that of afs; the synthesizer has been called twice
W20_ReadersAndSynthesizer ==
  /\ LookedUp("EventsIDToParams", InitNamespacesEventID)
  /\ returned.reader = 2
  /\ Len(returned.value) = 10
  /\ AfsEventID \in DOMAIN first
  /\ ReadEventID \in DOMAIN first
  /\ last.made /\ prev.made

(***************************************************************************)
(* The registry, continued.                                                *)
(***************************************************************************)
\* C24: the descriptor stored under a key of EventsIDToEvent has that key
\* as its ID: a lookup of an identifier of the registry never gives a
\* descriptor of another identifier.
C24_DescriptorIDIsKey ==
  LET events == EventsIDToEvent
  IN  /\ \A k \in DOMAIN events : events[k].ID = k
      /\ (returned.made /\ returned.table = "EventsIDToEvent" /\ returned.id \in DOMAIN events)
           => returned.value.ID = returned.id

\* a reader got the descriptor of init_namespaces under 2000, with ID 2000
W24_DescriptorOfKeyLookedUp ==
  /\ LookedUp("EventsIDToEvent", InitNamespacesEventID)
  /\ returned.value.ID = 2000
  /\ EventsIDToEvent[SocketDupEventID].ID = 1031

\* the descriptor is in the set named
InSet(config, set) == \E i \in 1..Len(config.Sets) : config.Sets[i] = set

\* the descriptor has exactly one probe, which attaches as sysCall
OneSyscallProbe(config) == Len(config.Probes) = 1 /\ config.Probes[1].attach = sysCall

\* C25: a descriptor is in the set "syscalls" exactly if its probes are one
\* probe that attaches as sysCall; no kernel or user-space event is in
\* "syscalls", and no kernel event attaches as sysCall.
C25_SyscallsSetIsSyscallBand ==
  LET events == EventsIDToEvent
  IN  /\ \A id \in DOMAIN events : InSet(events[id], "syscalls") <=> OneSyscallProbe(events[id])
      /\ \A id \in DOMAIN events : IsSyscall(events[id]) => OneSyscallProbe(events[id])
      /\ \A id \in (KernelEventIDs \cup UserSpaceEventIDValues) \cap DOMAIN events :
           ~InSet(events[id], "syscalls") /\ ~IsSyscall(events[id])

\* a reader got the descriptor of read, in "syscalls" with its one sysCall
\* probe, while that of sys_enter is outside with a raw tracepoint
W25_SyscallAndKernelEvent ==
  /\ LookedUp("EventsIDToEvent", ReadEventID)
  /\ InSet(returned.value, "syscalls") /\ OneSyscallProbe(returned.value)
  /\ ~InSet(EventsIDToEvent[SysEnterEventID], "syscalls")
  /\ EventsIDToEvent[SysEnterEventID].Probes[1].attach = rawTracepoint

\* C26: every key of EventsIDToParams is a key of EventsIDToEvent: no
\* schema is declared for an identifier without descriptor, and a lookup
\* that gave a declared schema was one of an identifier with a descriptor.
C26_EverySchemaHasEvent ==
  /\ DOMAIN EventsIDToParams \subseteq DOMAIN EventsIDToEvent
  /\ (returned.made /\ returned.table = "EventsIDToParams" /\ returned.id \in DOMAIN EventsIDToParams)
       => EventLookup(EventsIDToEvent, returned.id) # ZeroEventConfig

\* a reader got the schema of sys_enter, one argument, whose descriptor is
\* there; under MaxEventID there is neither
W26_SchemaOfEventLookedUp ==
  /\ LookedUp("EventsIDToParams", SysEnterEventID)
  /\ returned.value = <<[Type |-> "int", Name |-> "syscall"]>>
  /\ EventsIDToEvent[SysEnterEventID].Name = "sys_enter"
  /\ MaxEventID \notin DOMAIN EventsIDToParams \cup DOMAIN EventsIDToEvent

\* C28: the descriptors without probes are exactly magic_write, socket_dup
\* and init_namespaces; none is essential, none is in a set, and each has a
\* schema in EventsIDToParams that is not empty.
C28_ZeroProbeEvents ==
  LET events == EventsIDToEvent
      zeroProbe == {id \in DOMAIN events : events[id].Probes = <<>>}
  IN  /\ {events[id].Name : id \in zeroProbe} = {"magic_write", "socket_dup", "init_namespaces"}
      /\ Cardinality(zeroProbe) = 3
      /\ \A id \in zeroProbe :
           /\ ~events[id].EssentialEvent
           /\ events[id].Sets = <<>>
           /\ id \in DOMAIN EventsIDToParams
           /\ EventsIDToParams[id] # <<>>

\* a reader got the descriptor of init_namespaces: no probe, not essential,
\* in no set, and a schema of ten arguments
W28_ZeroProbeLookedUp ==
  /\ LookedUp("EventsIDToEvent", InitNamespacesEventID)
  /\ returned.value.Probes = <<>>
  /\ ~returned.value.EssentialEvent
  /\ returned.value.Sets = <<>>
  /\ Len(EventsIDToParams[InitNamespacesEventID]) = 10

\* C29: every descriptor of a kernel event (1000..1031) and that of the
\* user-space event (2000) has ID32Bit = sys32undefined.
C29_OutsideSyscallBandUndefined ==
  LET events == EventsIDToEvent
  IN  /\ \A id \in (KernelEventIDs \cup UserSpaceEventIDValues) \cap DOMAIN events :
           events[id].ID32Bit = "sys32undefined"
      /\ \A id \in DOMAIN events : ~IsSyscall(events[id]) => events[id].ID32Bit = "sys32undefined"

\* a reader got the descriptor of sys_enter: ID32Bit sys32undefined, as
\* that of init_namespaces has, while read has sys32read
W29_KernelEventLookedUp ==
  /\ LookedUp("EventsIDToEvent", SysEnterEventID)
  /\ returned.value.ID32Bit = "sys32undefined"
  /\ EventsIDToEvent[InitNamespacesEventID].ID32Bit = "sys32undefined"
  /\ EventsIDToEvent[ReadEventID].ID32Bit = "sys32read"

\* C30: MaxEventID = 1032 is greater than every kernel event, is no key of
\* EventsIDToEvent nor of EventsIDToParams, and is less than
\* InitNamespacesEventID: the check id < MaxEventID accepts every kernel
\* event and rejects the user-space event.
C30_MaxEventIDBound ==
  /\ MaxEventID = 1032
  /\ \A id \in KernelEventIDs : id < MaxEventID
  /\ MaxEventID \notin DOMAIN EventsIDToEvent
  /\ MaxEventID \notin DOMAIN EventsIDToParams
  /\ MaxEventID < InitNamespacesEventID
  /\ \A id \in DOMAIN EventsIDToEvent :
       /\ id \in KernelEventIDs => id < MaxEventID
       /\ id \in UserSpaceEventIDValues => ~(id < MaxEventID)
  /\ (returned.made /\ returned.id = MaxEventID) => returned.value \in {ZeroEventConfig, <<>>}

\* a reader looked MaxEventID up in EventsIDToEvent and got no descriptor,
\* while socket_dup, the last kernel event, is below the bound
W30_BoundLookedUp ==
  /\ LookedUp("EventsIDToEvent", MaxEventID)
  /\ returned.value = ZeroEventConfig
  /\ SocketDupEventID < MaxEventID
  /\ SocketDupEventID \in DOMAIN EventsIDToEvent

(***************************************************************************)
(* The steps of the call.                                                  *)
(***************************************************************************)
\* how often os.Readlink was called on name in the call under way
Readlinks(name) == IF name \in DOMAIN run.readlinks THEN run.readlinks[name] ELSE 0

\* C22: on every finite directory, changing or not, the call ends with an
\* event: a call under way can always take its next step, and the steps
\* it takes are counted by the names it examined and the entries it
\* listed; the directory is read once, the link of each listed entry is
\* resolved once, and nothing is read again after a failure.  When the
\* directory held still, the event is the one of the directory.
C22_TerminatesWithoutRetry ==
  /\ run.readDirs <= 1
  /\ \A name \in DirNames : Readlinks(name) <= 1
  /\ run.steps <= run.lstats + Len(run.namespacesLinks) + 4
  /\ run.pc = "Open" => run.steps = 0 /\ run.readDirs = 0
  /\ run.pc = "Getdents" => run.steps = 1 /\ run.readDirs = 1
  /\ run.pc = "Lstat" =>
       /\ run.readDirs = 1
       /\ run.steps = run.lstats + 2
       /\ run.lstats = Cardinality(run.examined) + (IF run.failed THEN 1 ELSE 0)
       /\ run.list \subseteq run.examined /\ run.examined \subseteq run.names
       /\ run.names \subseteq DirNames
       /\ \/ AtLstat /\ \E name \in DirNames : name \in run.names \ run.examined
          \/ AtListed
  /\ run.pc = "loop" =>
       /\ run.readDirs = 1
       /\ run.steps = (IF run.opened THEN run.lstats + 3 ELSE 1) + run.i - 1
       /\ Len(run.namespacesLinks) <= run.lstats
       /\ run.failed => run.namespacesLinks = <<>>
       /\ \/ AtReadlink /\ run.namespacesLinks[run.i] \in DirNames
          \/ AtReturn /\ run.i = Len(run.namespacesLinks) + 1
  /\ run.pc = "done" =>
       /\ run.event.made /\ run.event.err = "nil"
       /\ last.made /\ last.event = run.event.event /\ last.err = "nil"
       /\ run.readDirs = 1
       /\ \A name \in DirNames :
            Readlinks(name) = IF \E k \in 1..Len(run.namespacesLinks) : run.namespacesLinks[k] = name
                                THEN 1 ELSE 0
       /\ run.steps = (IF run.opened THEN run.lstats + 3 ELSE 1) + Len(run.namespacesLinks) + 1
       /\ run.still =>
            /\ Len(run.namespacesLinks) = IF readable /\ searchable THEN Cardinality(DOMAIN dir) ELSE 0
            /\ run.lstats = IF ~readable THEN 0
                            ELSE IF searchable THEN Cardinality(DOMAIN dir)
                            ELSE IF DOMAIN dir = {} THEN 0 ELSE 1
            /\ \E order \in Orders(DOMAIN dir) :
                 run.event.event =
                   InitNamespacesEvent(EventsIDToEvent, EventsIDToParams, readable /\ searchable,
                                       dir, order, run.event.event.Timestamp)

\* a call that ended on a directory of an entry that is no link and a link
\* with no number: each was read once
W22_EndedAfterFailures ==
  /\ run.pc = "done" /\ run.still
  /\ readable /\ searchable
  /\ DOMAIN dir = {"net", "pid"}
  /\ dir["net"] = Unresolvable
  /\ dir["pid"] = Link(PidNoDigits)
  /\ Readlinks("net") = 1 /\ Readlinks("pid") = 1
  /\ run.readDirs = 1
  /\ run.lstats = 2
  /\ run.steps = 8

(***************************************************************************)
(* The call on a full directory.                                           *)
(***************************************************************************)
\* C23: the schema of init_namespaces has ten arguments of type u32, one
\* per namespace kind, under the names /proc/1/ns uses; when the directory
\* holds under each of the ten names a link of the form kind:[N], N a
\* number of 32 bits, each argument is the number of its link, and none is
\* the default 0 of a name that was not recorded: each was stored under its
\* name by the loop, and is 0 only where the number of the link is 0.
C23_FullInventory ==
  /\ Len(Schema) = 10
  /\ \A i \in 1..Len(Schema) : Schema[i].Type = "u32" /\ Schema[i].Name = NamespaceNames[i]
  /\ (/\ last.made /\ last.still /\ readable /\ searchable
      /\ DOMAIN dir = Range(NamespaceNames)
      /\ \A name \in DOMAIN dir :
           /\ dir[name].isLink
           /\ KindNumberForm(dir[name].target)
           /\ InUint32(NumberOf(dir[name].target)))
       => /\ Len(last.event.Args) = 10
          /\ DOMAIN LastInventory = Range(NamespaceNames)
          /\ \A i \in 1..10 :
               LET arg == last.event.Args[i]
               IN  /\ arg.Name = NamespaceNames[i]
                   /\ arg.Type = "u32"
                   /\ arg.Value = LastInventory[arg.Name]
                   /\ Decimal(arg.Value) = Canonical(NumberOf(dir[arg.Name].target))
                   /\ arg.Value = Zero32 <=> Canonical(NumberOf(dir[arg.Name].target)) = <<"0">>

\* a call on a full directory whose names came in another order than by
\* name, where pid is 12, pid_for_children and mnt are 4026531835: the
\* arguments carry these numbers
W23_FullDirectoryRead ==
  /\ last.made
  /\ last.moved
  /\ last.order = NamespaceNames
  /\ DOMAIN dir = Range(NamespaceNames)
  /\ dir["pid"] = Link(<<"p","i","d",":","[","1","2","]">>)
  /\ dir["pid_for_children"] = Link(<<"p","i","d",":","[","4","0","2","6","5","3","1","8","3","5","]">>)
  /\ ArgValue("pid") = U32(0, 12)
  /\ ArgValue("pid_for_children") = U32(61439, 65531)
  /\ Decimal(ArgValue("mnt")) = <<"4","0","2","6","5","3","1","8","3","5">>
  /\ \A i \in 1..10 : last.event.Args[i].Value # Zero32

(***************************************************************************)
(* The round trip of a buffer through a schema.                            *)
(***************************************************************************)
\* C21: for an event with two or more arguments, the values written in the
\* order of its schema and read back by walking the same schema come out
\* under the schema's names, equal to the values written, and the buffer is
\* used up; for read, they come out as (int fd), (void* buf), (size_t count).
C21_RoundTrip ==
  /\ (trip.made /\ Len(trip.schema) >= 2) =>
       /\ Len(trip.written) = Len(trip.schema)
       /\ Len(trip.decoded) = Len(trip.schema)
       /\ \A i \in 1..Len(trip.schema) :
            /\ trip.decoded[i].Name = trip.schema[i].Name
            /\ trip.decoded[i].Type = trip.schema[i].Type
            /\ trip.decoded[i].Value = trip.written[i]
       /\ trip.rest = <<>>
  /\ (trip.made /\ trip.id = ReadEventID) =>
       /\ Len(trip.decoded) = 3
       /\ <<trip.decoded[1].Type, trip.decoded[1].Name>> = <<"int", "fd">>
       /\ <<trip.decoded[2].Type, trip.decoded[2].Name>> = <<"void*", "buf">>
       /\ <<trip.decoded[3].Type, trip.decoded[3].Name>> = <<"size_t", "count">>

\* a buffer of read: fd -1, buf 0xfffffffffffffffe, count 0x7fffd4311000
\* in twenty bytes, read back
W21_ReadBufferReadBack ==
  /\ trip.made /\ trip.id = ReadEventID
  /\ trip.buffer = <<255, 255, 255, 255,
                     254, 255, 255, 255, 255, 255, 255, 255,
                     0, 16, 49, 212, 255, 127, 0, 0>>
  /\ trip.decoded[1] = [Name |-> "fd", Type |-> "int", Value |-> -1]
  /\ trip.decoded[2].Value = U64(U32(65535, 65535), U32(65535, 65534))
  /\ trip.decoded[3].Value = U64(U32(0, 32767), U32(54321, 4096))
  /\ trip.rest = <<>>

=============================================================================
